---------------------------- MODULE Spec2Model ----------------------------
(***************************************************************************)
(* Weaklayer Gateway: the filesystem output.                               *)
(*                                                                         *)
(* Request goroutines call FilesystemOutput.Consume; every group has one   *)
(* metaFile (a buffered queue eventData and the goroutine metaProcess),    *)
(* and every file has one goroutine process that appends to the hidden     *)
(* file and publishes it under its visible name when it finishes.          *)
(*                                                                         *)
(* Channels: eventData is buffered (a sequence and a closed flag); the     *)
(* content channel of a file is unbuffered (a send is a joint step with    *)
(* the receiving goroutine); doneChannel is only ever closed.              *)
(***************************************************************************)
EXTENDS Integers, Sequences, FiniteSets, TLC

(***************************************************************************)
(* Bounds of the model.                                                    *)
(***************************************************************************)
\* events handed to Consume in one run
MaxEvents == 3
\* events in one Consume call
MaxBatch == 2
\* capacity of the eventData queue (10000 in the program, scaled down)
QueueCapacity == 2
\* the configured size threshold in bytes (config: strictly positive)
MaxFileSize == 3
\* length in bytes of one serialized event
EventLen == 2
\* expiries of the age timer in one run
MaxTimerFires == 1
\* failing system calls, failing serializations in one run
MaxFaults == 1
\* calls of FilesystemOutput.Close in one run
MaxCloseCalls == 2

Groups == {"g1", "g2"}
Handlers == {"h1", "h2"}

MaxWriters == Cardinality(Groups)
Writers == 1..MaxWriters
\* every writer opens one file, every event and every timer expiry rotates at
\* most once, and a failed creation of a writer can leave a file behind
MaxFiles == MaxWriters + MaxEvents + MaxTimerFires + MaxFaults
Files == 1..MaxFiles

VARIABLES
    metaFiles,    \* FilesystemOutput.metaFiles: group -> writer (0: no entry)
    mutex,        \* metaFileCreationMutex: "free" or the handler holding it
    metaFile,     \* writer -> its queue and the state of its metaProcess
    file,         \* file -> the handle, the goroutine process and the file on disk
    now,          \* time.Now() in microseconds
    handler,      \* request goroutine -> its position in Consume
    events,       \* the events handed to Consume so far: <<[group, ok]>>
    enqueued,     \* history: writer -> the events sent on its queue, in order
    dropped,      \* history: the events Consume discarded
    closeCalls,   \* calls of FilesystemOutput.Close so far
    queueCloses,  \* history: writer -> how often close(eventData) ran
    timerFires,   \* expiries of the age timer so far
    faultsLeft,   \* failures the environment may still inject
    groups,       \* the groups sensors are installed for (the configured verifiers)
    eventStrings, \* StdoutOutput.eventStrings: the queue of the stdout output
    stdoutLines,  \* the lines printed on stdout
    panic,        \* "none", or why the process has died
    tokenProcessor, \* token.Processor: currentSecret, pastSecrets, duration
    clock,        \* time.Now().Unix(), in seconds
    tokenString,  \* the token string last handed to VerifyToken
    verified,     \* what that call of VerifyToken gave
    minted,       \* the last call of NewToken: its arguments and its token
    parseCall,    \* the call of events.ParseEvent in hand: arguments and result
    authCall,     \* an install key and a verifier, and what auth.Verify gave
    api,          \* InstallAPI and EventsAPI: the verifiers, the request in hand
                  \* and what its handler did
    server        \* server.Run and its TopOutput: the outputs, the call of the
                  \* TopOutput in hand and what it did, and the shutdown

vars == <<metaFiles, mutex, metaFile, file, now, handler, events, enqueued,
          dropped, closeCalls, queueCloses, timerFires, faultsLeft, groups,
          eventStrings, stdoutLines, panic,
          tokenProcessor, clock, tokenString, verified, minted, parseCall,
          authCall, api, server>>

stdoutVars == <<eventStrings, stdoutLines>>

\* the state of the outputs
outputVars == <<metaFiles, mutex, metaFile, file, now, handler, events, enqueued,
                dropped, closeCalls, queueCloses, timerFires, faultsLeft, groups,
                eventStrings, stdoutLines, panic>>

\* the state of the token processor and of its callers
tokenVars == <<tokenProcessor, clock, tokenString, verified, minted>>

\* the state of the sensor API, which the outputs leave alone
gatewayVars == <<tokenVars, parseCall, authCall, api, server>>

\* the state of the sensor API apart from the token processor
exceptTokenVars == <<parseCall, authCall, api, server>>

\* the state of the sensor API apart from the parsing of events
exceptEventVars == <<tokenVars, authCall, api, server>>

\* the state of the sensor API apart from install keys and verifiers
exceptAuthVars == <<tokenVars, parseCall, api, server>>

\* the state of the sensor API apart from the handlers and the clock
exceptApiVars == <<tokenProcessor, tokenString, verified, minted, parseCall, authCall,
                   server>>

\* the state of the sensor API, which server.Run and its TopOutput leave alone
exceptServerVars == <<tokenVars, parseCall, authCall, api>>

(***************************************************************************)
(* The bytes of a file, as the sequence of the writes that reached it.     *)
(***************************************************************************)
Tok(kind, id) == [kind |-> kind, id |-> id]
OpenBracket == Tok("[", 0)      \* "[\n"
Separator == Tok(",", 0)        \* ",\n"
CloseBracket == Tok("]", 0)     \* "\n]"
EventBytes(e) == Tok("event", e)
\* the leading bytes of a write that failed part way
Partial(tok) == Tok("partial", tok.id)

ByteLen(tok) ==
    CASE tok.kind = "event" -> EventLen
      [] tok.kind = "partial" -> 1
      [] OTHER -> 2

\* The events a file holds, in file order
EventsIn(bytes) ==
    LET evs == SelectSeq(bytes, LAMBDA t : t.kind = "event")
    IN [i \in 1..Len(evs) |-> evs[i].id]

\* json.Unmarshal into an array accepts the bytes: "[", whole events separated
\* by ",", "]"
IsJSONArray(bytes) ==
    /\ Len(bytes) >= 2
    /\ bytes[1] = OpenBracket
    /\ bytes[Len(bytes)] = CloseBracket
    /\ LET body == SubSeq(bytes, 2, Len(bytes) - 1)
       IN \/ body = <<>>
          \/ /\ Len(body) % 2 = 1
             /\ \A i \in 1..Len(body) :
                   IF i % 2 = 1 THEN body[i].kind = "event"
                                ELSE body[i] = Separator

(***************************************************************************)
(* Records                                                                 *)
(***************************************************************************)
NoFile ==
    [owner |-> 0,              \* the writer whose directory holds the file
     name |-> 0,               \* the timestamp in the file name
     onDisk |-> FALSE,
     visible |-> FALSE,        \* renamed from ".name" to "name"
     bytes |-> <<>>,
     content |-> "none",       \* the content channel: none, open, closed
     doneChannel |-> "none",
     doneFlag |-> FALSE,
     closeGuard |-> FALSE,     \* the sync.Once has run
     pc |-> "none",            \* process: none, recv, write, failed, exited
     eventContent |-> 0,
     isFirstEvent |-> TRUE,
     totalBytesWritten |-> 0,
     closeRequests |-> 0,      \* history: how often file.Close was called
     contentCloses |-> 0,      \* history: how often close(content) ran
     doneCloses |-> 0,         \* history: how often close(doneChannel) ran
     finalizes |-> 0]          \* history: how often closeFile ran

NoMetaFile ==
    [group |-> "none",
     eventData |-> <<>>,
     closed |-> FALSE,
     pc |-> "none",            \* metaProcess: none, select, write, send, rotate, exited
     attempt |-> 0,            \* 1: the Write before rotateFile, 2: the one after
     eventContent |-> 0,
     writingFile |-> 0,
     fileTimer |-> 0,          \* the timer the select waits on (the time of its start)
     timers |-> {},            \* the timers started so far
     expired |-> {}]           \* the timers that have fired

IdleHandler ==
    [pc |-> "idle",            \* idle, lookup, lock, create, store, consume, returned
     group |-> "none",
     batch |-> <<>>,           \* the events of the call
     rest |-> <<>>,            \* the events the loop has not reached yet
     metaFile |-> 0,           \* the writer handle in hand (0: the zero value)
     encounteredError |-> FALSE,
     err |-> FALSE]            \* whether the last call returned an error

\* The output after NewFilesystemOutput, for sensors of the groups gs, in an
\* environment that lets up to budget operations fail
InitState(budget, gs) ==
    /\ metaFiles = [g \in Groups |-> 0]
    /\ mutex = "free"
    /\ metaFile = [w \in Writers |-> NoMetaFile]
    /\ file = [f \in Files |-> NoFile]
    /\ now = 1
    /\ handler = [h \in Handlers |-> IdleHandler]
    /\ events = <<>>
    /\ enqueued = [w \in Writers |-> <<>>]
    /\ dropped = {}
    /\ closeCalls = 0
    /\ queueCloses = [w \in Writers |-> 0]
    /\ timerFires = 0
    /\ faultsLeft = budget
    /\ groups = gs
    /\ eventStrings = <<>>
    /\ stdoutLines = <<>>
    /\ panic = "none"

(***************************************************************************)
(* token.go: the values of the token processor                             *)
(***************************************************************************)
\* the claims of a token: Claims{Group, Sensor}; uuid.Nil is "nil"
ZeroClaims == [group |-> "nil", sensor |-> "nil"]

\* no token string
NoToken ==
    [form |-> "empty", alg |-> "", group |-> "nil", sensor |-> "nil",
     iat |-> 0, nbf |-> 0, exp |-> 0, sig |-> [alg |-> "", secret |-> ""]]

\* VerifyToken has not been called
NotVerified == [called |-> FALSE, panic |-> FALSE, isValid |-> FALSE,
                claims |-> ZeroClaims, now |-> 0]

\* NewToken has not been called
NotMinted == [called |-> FALSE, group |-> "nil", sensor |-> "nil", token |-> NoToken]

\* a processor that nothing is asked of
TokenIdle ==
    /\ tokenProcessor = [currentSecret |-> "s1", pastSecrets |-> <<>>, duration |-> 1]
    /\ clock = 1
    /\ tokenString = NoToken
    /\ verified = NotVerified
    /\ minted = NotMinted

\* ParseEvent has not been called
NotParsed ==
    [called |-> FALSE,
     data |-> [json |-> "", type |-> "", time |-> "", sensor |-> "", group |-> "",
               identityFirst |-> FALSE, fields |-> ""],
     sensor |-> "nil", group |-> "nil", err |-> FALSE,
     event |-> [struct |-> "", type |-> "", time |-> "", sensor |-> "nil",
                group |-> "nil", fields |-> ""]]

EventsIdle == parseCall = NotParsed

\* the zero values of auth.Key and auth.Verifier
ZeroKey == [group |-> "nil", secret |-> <<>>, checksum |-> <<>>]

ZeroVerifier == [group |-> "nil", salt |-> <<>>, hash |-> <<>>, checksum |-> <<>>]

\* no key has been made
NoAuthCall ==
    [key |-> ZeroKey, verifier |-> ZeroVerifier, made |-> "none", changes |-> 0,
     changed |-> "none", validBefore |-> FALSE, called |-> FALSE, ok |-> FALSE]

AuthIdle == authCall = NoAuthCall

\* no request
NoRequest ==
    [body |-> "", key |-> ZeroKey, label |-> "", header |-> "", token |-> NoToken,
     elements |-> <<>>, ending |-> "", randomFails |-> FALSE]

\* what a handler has done for a request: the status it answered with
\* ("panic": it answered nothing), the sensor and the token of its response,
\* whether it drew a new sensor UUID, the batches it gave to Consume, and
\* the order in which it called Consume and wrote the body of its response
NoOutcome ==
    [status |-> "", sensor |-> "nil", token |-> NoToken, renewal |-> FALSE,
     minted |-> FALSE, consumed |-> <<>>, order |-> <<>>,
     expiresAt |-> 0, issuedAt |-> 0]

\* no sensor has been installed
NoInstallation == [token |-> NoToken, sensor |-> "nil", renewals |-> 0]

\* handlers without verifiers that no request has reached
NoApiCall ==
    [verifiers |-> <<>>, installation |-> NoInstallation, handler |-> "none",
     request |-> NoRequest, outcome |-> NoOutcome]

ApiIdle == api = NoApiCall

\* a TopOutput without outputs that nothing has called, in a Run that
\* serves requests (run: serving, shutdown, stopped, closed)
NoServerCall ==
    [outputs |-> <<>>, call |-> "none", batch |-> <<>>, invoked |-> <<>>,
     returned |-> <<>>, result |-> "", calls |-> 0, run |-> "serving",
     config |-> [duration |-> 0]]

ServerIdle == server = NoServerCall

IdleExceptToken == EventsIdle /\ AuthIdle /\ ApiIdle /\ ServerIdle

IdleExceptEvents == TokenIdle /\ AuthIdle /\ ApiIdle /\ ServerIdle

IdleExceptAuth == TokenIdle /\ EventsIdle /\ ApiIdle /\ ServerIdle

IdleExceptApi == tokenString = NoToken /\ verified = NotVerified /\ minted = NotMinted
                   /\ EventsIdle /\ AuthIdle /\ ServerIdle

IdleExceptServer == TokenIdle /\ EventsIdle /\ AuthIdle /\ ApiIdle

\* the sensor API is not in use
GatewayIdle == TokenIdle /\ EventsIdle /\ AuthIdle /\ ApiIdle /\ ServerIdle

Init == InitState(MaxFaults, {"g1"}) /\ GatewayIdle

Running == panic = "none"
CanFail == faultsLeft > 0

NumFiles == Cardinality({f \in Files : file[f].onDisk})
NumWriters == Cardinality({w \in Writers : metaFile[w].pc # "none"})

(***************************************************************************)
(* file.go                                                                 *)
(***************************************************************************)

\* writeToFile: the outcomes of one write. A failing write leaves nothing or
\* the leading bytes; n is the number of bytes that reached the file.
WriteOutcomes(tok) ==
    {[app |-> <<tok>>, n |-> ByteLen(tok), ok |-> TRUE]}
    \cup (IF CanFail
          THEN {[app |-> <<>>, n |-> 0, ok |-> FALSE],
                [app |-> <<Partial(tok)>>, n |-> 1, ok |-> FALSE]}
          ELSE {})

\* newFile: the outcomes of opening ".<now>.json" in the directory of writer w.
\* os.OpenFile fails (no file), the write of "[\n" fails (the hidden file stays
\* behind, no goroutine is started), or the handle is returned and process runs.
NewFileOutcomes(w) ==
    LET created == [NoFile EXCEPT !.owner = w, !.name = now, !.onDisk = TRUE]
    IN {[ok |-> TRUE,
         file |-> [created EXCEPT !.bytes = <<OpenBracket>>,
                                  !.content = "open",
                                  !.doneChannel = "open",
                                  !.pc = "recv"]]}
       \cup (IF CanFail
             THEN {[ok |-> FALSE, file |-> NoFile]}
                  \cup {[ok |-> FALSE, file |-> [created EXCEPT !.bytes = o.app]] :
                          o \in {x \in WriteOutcomes(OpenBracket) : ~x.ok}}
             ELSE {})

\* the slot of the next file created
NextFile == NumFiles + 1

\* file.Close without its sync.Once
FileCloseUnguarded(fl) ==
    [fl EXCEPT !.closeGuard = TRUE,
               !.content = "closed",
               !.closeRequests = @ + 1,
               !.contentCloses = @ + 1]

\* file.Close: closes the content channel, once. The receiver is a copy of
\* the handle, so the doneFlag it sets is lost: the handle keeps doneFlag.
FileClose(fl) ==
    IF fl.closeGuard
    THEN [fl EXCEPT !.closeRequests = @ + 1]
    ELSE [fl EXCEPT !.closeGuard = TRUE,
                    !.content = "closed",
                    !.closeRequests = @ + 1,
                    !.contentCloses = @ + 1]

\* sayDone without its done variable
SayDoneUnguarded(fl) ==
    [fl EXCEPT !.doneChannel = "closed", !.doneCloses = @ + 1]

\* sayDone: close(doneChannel), once
SayDone(fl) ==
    IF fl.doneChannel = "closed"
    THEN fl
    ELSE [fl EXCEPT !.doneChannel = "closed", !.doneCloses = @ + 1]

\* the separator is written before every event, the first one too
WriteTokensAlwaysSeparated(fl, ev) == <<Separator, ev>>

\* what the loop writes for an event: ",\n" unless this is the first event
\* of the file, then the event
WriteTokens(fl, ev) == IF fl.isFirstEvent THEN <<ev>> ELSE <<Separator, ev>>

\* process, the body of the loop: the separator unless this is the first
\* event, then the event; the first failing write ends the loop. After the
\* event, sayDone if totalBytesWritten has reached maxFileSize.
ProcessWrite(f) ==
    /\ Running
    /\ file[f].pc = "write"
    /\ LET fl == file[f]
           ev == EventBytes(fl.eventContent)
       IN \/ \* every write succeeds
             LET toks == WriteTokens(fl, ev)
                 total == fl.totalBytesWritten + ByteLen(ev)
                          + (IF fl.isFirstEvent THEN 0 ELSE ByteLen(Separator))
                 wrote == [fl EXCEPT !.bytes = @ \o toks,
                                     !.totalBytesWritten = total,
                                     !.isFirstEvent = FALSE,
                                     !.eventContent = 0,
                                     !.pc = "recv"]
             IN /\ file' = [file EXCEPT ![f] =
                              IF total >= MaxFileSize THEN SayDone(wrote) ELSE wrote]
                /\ UNCHANGED faultsLeft
          \/ \* the write of the separator fails
             /\ ~fl.isFirstEvent
             /\ \E o \in {x \in WriteOutcomes(Separator) : ~x.ok} :
                   file' = [file EXCEPT ![f] =
                              [fl EXCEPT !.bytes = @ \o o.app,
                                         !.totalBytesWritten = @ + o.n,
                                         !.eventContent = 0,
                                         !.pc = "failed"]]
             /\ faultsLeft' = faultsLeft - 1
          \/ \* the write of the event fails
             /\ \E o \in {x \in WriteOutcomes(ev) : ~x.ok} :
                   file' = [file EXCEPT ![f] =
                              [fl EXCEPT !.bytes = @ \o
                                            (IF fl.isFirstEvent THEN <<>> ELSE <<Separator>>)
                                            \o o.app,
                                         !.totalBytesWritten = @ + o.n
                                            + (IF fl.isFirstEvent THEN 0 ELSE ByteLen(Separator)),
                                         !.isFirstEvent = FALSE,
                                         !.eventContent = 0,
                                         !.pc = "failed"]]
             /\ faultsLeft' = faultsLeft - 1
    /\ UNCHANGED <<metaFiles, mutex, metaFile, now, handler, events, enqueued,
                   dropped, closeCalls, queueCloses,
                   timerFires, panic, groups, stdoutVars,
                   gatewayVars>>

\* closeFile (deferred): sayDone, the write of "\n]", file.Close, os.Rename.
\* Each error is logged and the next step is taken all the same.
ProcessCloseFile(f) ==
    /\ Running
    /\ \/ file[f].pc = "recv" /\ file[f].content = "closed"
       \/ file[f].pc = "failed"
    /\ \E o \in WriteOutcomes(CloseBracket), renamed \in BOOLEAN :
          LET failed == (IF o.ok THEN 0 ELSE 1) + (IF renamed THEN 0 ELSE 1)
          IN /\ failed <= faultsLeft
             /\ file' = [file EXCEPT ![f] =
                           [SayDone(file[f]) EXCEPT !.bytes = @ \o o.app,
                                                    !.totalBytesWritten = @ + o.n,
                                                    !.visible = renamed,
                                                    !.finalizes = @ + 1,
                                                    !.pc = "exited"]]
             /\ faultsLeft' = faultsLeft - failed
    /\ UNCHANGED <<metaFiles, mutex, metaFile, now, handler, events, enqueued,
                   dropped, closeCalls, queueCloses,
                   timerFires, panic, groups, stdoutVars,
                   gatewayVars>>

(***************************************************************************)
(* metafile.go: metaProcess                                                *)
(***************************************************************************)

\* a rotation that closes the old file whether the new one was opened or not
RotateFileClosingFirst(w, o) ==
    LET old == metaFile[w].writingFile
    IN /\ file' = IF o.file.onDisk
                  THEN [file EXCEPT ![NextFile] = o.file,
                                    ![old] = FileClose(file[old])]
                  ELSE [file EXCEPT ![old] = FileClose(file[old])]
       /\ now' = now + 1
       /\ faultsLeft' = faultsLeft - (IF o.ok THEN 0 ELSE 1)

\* the select reads the channel of the first timer, whatever fileTimer holds
FirstTimer(mf) ==
    IF mf.timers = {} THEN 0
    ELSE CHOOSE t \in mf.timers : \A t2 \in mf.timers : t <= t2

\* case <-fileTimer.C: the channel of the timer fileTimer holds when the
\* select is entered
SelectedTimer(mf) == mf.fileTimer

\* fileTimer = time.NewTimer(maxFileAge): the timer before it is left running
NewTimer(mf, t) == [mf EXCEPT !.fileTimer = t, !.timers = @ \cup {t}]

\* rotateFile with the outcome o of newFile: the new file is opened first, and
\* only if that succeeded it becomes writingFile and the old file is closed.
RotateFile(w, o) ==
    LET old == metaFile[w].writingFile
    IN /\ file' = IF o.ok
                  THEN [file EXCEPT ![NextFile] = o.file,
                                    ![old] = FileClose(file[old])]
                  ELSE IF o.file.onDisk
                       THEN [file EXCEPT ![NextFile] = o.file]
                       ELSE file
       /\ now' = now + 1
       /\ faultsLeft' = faultsLeft - (IF o.ok THEN 0 ELSE 1)

\* receive from contentChannel as a stack would
ReceiveLast(q) == [value |-> q[Len(q)], rest |-> SubSeq(q, 1, Len(q) - 1)]

\* receive from contentChannel: the oldest buffered event
Receive(q) == [value |-> Head(q), rest |-> Tail(q)]

\* case eventContent, ok := <-contentChannel, ok
MetaReceive(w) ==
    /\ Running
    /\ metaFile[w].pc = "select"
    /\ metaFile[w].eventData # <<>>
    /\ LET r == Receive(metaFile[w].eventData)
       IN metaFile' = [metaFile EXCEPT ![w].eventData = r.rest,
                                       ![w].eventContent = r.value,
                                       ![w].attempt = 1,
                                       ![w].pc = "write"]
    /\ UNCHANGED <<metaFiles, mutex, file, now, handler, events, enqueued,
                   dropped, closeCalls, queueCloses, timerFires,
                   faultsLeft, panic, groups, stdoutVars,
                   gatewayVars>>

\* the queue is closed and drained, and the current file is left open
MetaShutdownNoClose(w) ==
    /\ Running
    /\ metaFile[w].pc = "select"
    /\ metaFile[w].eventData = <<>>
    /\ metaFile[w].closed
    /\ metaFile' = [metaFile EXCEPT ![w].pc = "exited"]
    /\ UNCHANGED <<metaFiles, mutex, file, now, handler, events, enqueued,
                   dropped, closeCalls, queueCloses, timerFires,
                   faultsLeft, panic, groups, stdoutVars,
                   gatewayVars>>

\* case !ok: break readLoop; writingFile.Close()
MetaShutdown(w) ==
    /\ Running
    /\ metaFile[w].pc = "select"
    /\ metaFile[w].eventData = <<>>
    /\ metaFile[w].closed
    /\ metaFile' = [metaFile EXCEPT ![w].pc = "exited"]
    /\ file' = [file EXCEPT ![metaFile[w].writingFile] = FileClose(@)]
    /\ UNCHANGED <<metaFiles, mutex, now, handler, events, enqueued,
                   dropped, closeCalls, queueCloses, timerFires,
                   faultsLeft, panic, groups, stdoutVars,
                   gatewayVars>>

\* case <-fileTimer.C: rotateFile(); an error is logged
MetaTimer(w) ==
    /\ Running
    /\ metaFile[w].pc = "select"
    /\ timerFires < MaxTimerFires
    /\ timerFires' = timerFires + 1
    /\ \E o \in NewFileOutcomes(w) :
          /\ RotateFile(w, o)
          /\ metaFile' = [metaFile EXCEPT ![w] =
                            IF o.ok
                            THEN [NewTimer(@, now) EXCEPT !.writingFile = NextFile]
                            ELSE NewTimer(@, now)]
    /\ UNCHANGED <<metaFiles, mutex, handler, events, enqueued,
                   dropped, closeCalls, queueCloses, panic, groups, stdoutVars,
                   gatewayVars>>

\* Write returned false: rotate after the first attempt, discard the event
\* after the second
WriteRefused(mf) ==
    IF mf.attempt = 1
    THEN [mf EXCEPT !.pc = "rotate"]
    ELSE [mf EXCEPT !.pc = "select", !.eventContent = 0, !.attempt = 0]

\* file.Write up to its first select: false if doneFlag is set; if doneChannel
\* is closed, Close and false; otherwise on to the second select
MetaWrite(w) ==
    LET f == metaFile[w].writingFile
    IN /\ Running
       /\ metaFile[w].pc = "write"
       /\ IF file[f].doneFlag
          THEN /\ metaFile' = [metaFile EXCEPT ![w] = WriteRefused(@)]
               /\ UNCHANGED file
          ELSE IF file[f].doneChannel = "closed"
          THEN /\ metaFile' = [metaFile EXCEPT ![w] = WriteRefused(@)]
               /\ file' = [file EXCEPT ![f] = FileClose(@)]
          ELSE /\ metaFile' = [metaFile EXCEPT ![w].pc = "send"]
               /\ UNCHANGED file
       /\ UNCHANGED <<metaFiles, mutex, now, handler, events, enqueued,
                      dropped, closeCalls, queueCloses, timerFires,
                      faultsLeft, panic, groups, stdoutVars,
                   gatewayVars>>

\* the second select of file.Write, case <-file.doneChannel: Close and false
MetaSendDone(w) ==
    LET f == metaFile[w].writingFile
    IN /\ Running
       /\ metaFile[w].pc = "send"
       /\ file[f].doneChannel = "closed"
       /\ metaFile' = [metaFile EXCEPT ![w] = WriteRefused(@)]
       /\ file' = [file EXCEPT ![f] = FileClose(@)]
       /\ UNCHANGED <<metaFiles, mutex, now, handler, events, enqueued,
                      dropped, closeCalls, queueCloses, timerFires,
                      faultsLeft, panic, groups, stdoutVars,
                   gatewayVars>>

\* the second select of file.Write, case file.content <- data: process is at
\* its receive and takes the event (a send on a closed channel panics); true
MetaSendContent(w) ==
    LET f == metaFile[w].writingFile
    IN /\ Running
       /\ metaFile[w].pc = "send"
       /\ IF file[f].content = "closed"
          THEN /\ panic' = "send on closed channel"
               /\ UNCHANGED <<metaFile, file>>
          ELSE /\ file[f].pc = "recv"
               /\ file' = [file EXCEPT ![f].eventContent = metaFile[w].eventContent,
                                       ![f].pc = "write"]
               /\ metaFile' = [metaFile EXCEPT ![w].pc = "select",
                                               ![w].eventContent = 0,
                                               ![w].attempt = 0]
               /\ UNCHANGED panic
       /\ UNCHANGED <<metaFiles, mutex, now, handler, events, enqueued,
                      dropped, closeCalls, queueCloses,
                      timerFires, faultsLeft, groups, stdoutVars,
                   gatewayVars>>

\* after a rotation the event is forgotten
ForgetAfterRotate(mf, f) ==
    [mf EXCEPT !.writingFile = f, !.pc = "select", !.eventContent = 0, !.attempt = 0]

\* after a rotation the same event is written to the file that was closed
RetryOnOldFile(mf, f) ==
    [mf EXCEPT !.pc = "write", !.attempt = 2]

\* after a rotation the same event is written to the new file
RetryAfterRotate(mf, f) ==
    [mf EXCEPT !.writingFile = f, !.pc = "write", !.attempt = 2]

\* err := rotateFile() after a refused Write: on an error the event is
\* discarded, otherwise writingFile.Write(eventContent) again
MetaRotate(w) ==
    /\ Running
    /\ metaFile[w].pc = "rotate"
    /\ \E o \in NewFileOutcomes(w) :
          /\ RotateFile(w, o)
          /\ metaFile' = [metaFile EXCEPT ![w] =
                            IF o.ok
                            THEN RetryAfterRotate(NewTimer(@, now), NextFile)
                            ELSE [NewTimer(@, now) EXCEPT !.pc = "select",
                                                          !.eventContent = 0,
                                                          !.attempt = 0]]
    /\ UNCHANGED <<metaFiles, mutex, handler, events, enqueued,
                   dropped, closeCalls, queueCloses,
                   timerFires, panic, groups, stdoutVars,
                   gatewayVars>>

(***************************************************************************)
(* filesystem.go and metafile.go: Consume                                  *)
(***************************************************************************)

\* ids of the events of a new batch of n events
NewIds(n) == [i \in 1..n |-> Len(events) + i]

\* FilesystemOutput.Consume is called with a batch of events of one group
\* (the caller stamps every event with the group of the token); an event may
\* be one that json.Marshal rejects. group := events[0].GetGroup()
StartConsume(h) ==
    /\ Running
    /\ handler[h].pc = "idle"
    /\ closeCalls = 0
    /\ \E g \in groups, n \in 1..MaxBatch, bad \in 0..MaxBatch :
          /\ Len(events) + n <= MaxEvents
          /\ bad <= n
          /\ bad # 0 => CanFail
          /\ events' = events \o [i \in 1..n |-> [group |-> g, ok |-> i # bad]]
          /\ faultsLeft' = faultsLeft - (IF bad # 0 THEN 1 ELSE 0)
          /\ handler' = [handler EXCEPT ![h] =
                           [IdleHandler EXCEPT !.pc = "lookup",
                                               !.group = g,
                                               !.batch = NewIds(n),
                                               !.rest = NewIds(n)]]
    /\ UNCHANGED <<metaFiles, mutex, metaFile, file, now, enqueued, dropped,
                   closeCalls, queueCloses, timerFires, panic, groups, stdoutVars,
                   gatewayVars>>

\* Another request is writing the map (metaFiles[group] = ...) right now
MapWriteInProgress(h) == \E h2 \in Handlers \ {h} : handler[h2].pc = "store"

\* What the read of the map in getGroupMetaFile, made without the lock, can
\* give: the entry or its absence; and, when it races with a write of the
\* map, also a miss, the zero value of an entry whose key is in place and whose
\* value is not yet, or the runtime's fatal error.
LookupOutcomes(h) ==
    LET g == handler[h].group
    IN {IF metaFiles[g] # 0 THEN "hit" ELSE "miss"}
       \cup (IF MapWriteInProgress(h) THEN {"miss", "fatal"} ELSE {})
       \cup (IF \E h2 \in Handlers \ {h} :
                   handler[h2].pc = "store" /\ handler[h2].group = g
             THEN {"zero"} ELSE {})

\* getGroupMetaFile: the lookup without the lock
Lookup(h) ==
    /\ Running
    /\ handler[h].pc = "lookup"
    /\ \E o \in LookupOutcomes(h) :
          CASE o = "hit" ->
                 /\ handler' = [handler EXCEPT ![h].metaFile = metaFiles[handler[h].group],
                                               ![h].pc = "consume"]
                 /\ UNCHANGED panic
            [] o = "zero" ->
                 /\ handler' = [handler EXCEPT ![h].metaFile = 0,
                                               ![h].pc = "consume"]
                 /\ UNCHANGED panic
            [] o = "miss" ->
                 /\ handler' = [handler EXCEPT ![h].pc = "lock"]
                 /\ UNCHANGED panic
            [] o = "fatal" ->
                 /\ panic' = "concurrent map read and map write"
                 /\ UNCHANGED handler
    /\ UNCHANGED <<metaFiles, mutex, metaFile, file, now, events, enqueued,
                   dropped, closeCalls, queueCloses,
                   timerFires, faultsLeft, groups, stdoutVars,
                   gatewayVars>>

\* createAndStoreGroupMetaFile: metaFileCreationMutex.Lock()
Lock(h) ==
    /\ Running
    /\ handler[h].pc = "lock"
    /\ mutex = "free"
    /\ mutex' = h
    /\ handler' = [handler EXCEPT ![h].pc = "create"]
    /\ UNCHANGED <<metaFiles, metaFile, file, now, events, enqueued, dropped,
                   closeCalls, queueCloses, timerFires,
                   faultsLeft, panic, groups, stdoutVars,
                   gatewayVars>>

\* the second lookup, made under the lock
LockedLookup(g) == metaFiles[g]

\* Consume returns an error before any event was enqueued
ReturnError(hr) ==
    [hr EXCEPT !.pc = "returned", !.rest = <<>>, !.encounteredError = TRUE, !.err = TRUE]

\* createAndStoreGroupMetaFile under the lock: the entry if there is one by
\* now; otherwise createDirectory and newMetaFile (newFile, the queue, go
\* metaProcess), each of which can fail and end Consume
Create(h) ==
    LET g == handler[h].group
        w == NumWriters + 1
    IN /\ Running
       /\ handler[h].pc = "create"
       /\ IF LockedLookup(g) # 0
          THEN /\ handler' = [handler EXCEPT ![h].metaFile = LockedLookup(g),
                                             ![h].pc = "consume"]
               /\ mutex' = "free"
               /\ UNCHANGED <<metaFile, file, now, faultsLeft, dropped>>
          ELSE \/ \* createDirectory fails
                  /\ CanFail
                  /\ faultsLeft' = faultsLeft - 1
                  /\ handler' = [handler EXCEPT ![h] = ReturnError(@)]
                  /\ dropped' = dropped \cup {handler[h].batch[i] :
                                                i \in 1..Len(handler[h].batch)}
                  /\ mutex' = "free"
                  /\ UNCHANGED <<metaFile, file, now>>
               \/ \* newMetaFile
                  /\ w \in Writers
                  /\ \E o \in NewFileOutcomes(w) :
                        /\ now' = now + 1
                        /\ faultsLeft' = faultsLeft - (IF o.ok THEN 0 ELSE 1)
                        /\ file' = IF o.file.onDisk
                                   THEN [file EXCEPT ![NextFile] = o.file]
                                   ELSE file
                        /\ IF o.ok
                           THEN /\ metaFile' = [metaFile EXCEPT ![w] =
                                                  [NewTimer(NoMetaFile, now)
                                                     EXCEPT !.group = g,
                                                            !.pc = "select",
                                                            !.writingFile = NextFile]]
                                /\ handler' = [handler EXCEPT ![h].metaFile = w,
                                                              ![h].pc = "store"]
                                /\ UNCHANGED <<mutex, dropped>>
                           ELSE /\ handler' = [handler EXCEPT ![h] = ReturnError(@)]
                                /\ dropped' = dropped \cup {handler[h].batch[i] :
                                                              i \in 1..Len(handler[h].batch)}
                                /\ mutex' = "free"
                                /\ UNCHANGED metaFile
       /\ UNCHANGED <<metaFiles, events, enqueued, closeCalls, queueCloses,
                      timerFires, panic, groups, stdoutVars,
                   gatewayVars>>

\* filesystemOutput.metaFiles[group] = metaFileInstance; Unlock; return
Store(h) ==
    /\ Running
    /\ handler[h].pc = "store"
    /\ metaFiles' = [metaFiles EXCEPT ![handler[h].group] = handler[h].metaFile]
    /\ mutex' = "free"
    /\ handler' = [handler EXCEPT ![h].pc = "consume"]
    /\ UNCHANGED <<metaFile, file, now, events, enqueued, dropped, closeCalls,
                   queueCloses, timerFires, faultsLeft, panic, groups, stdoutVars,
                   gatewayVars>>

\* the event is discarded and the error is not recorded
DiscardSilently(hr) == [hr EXCEPT !.rest = Tail(@)]

\* the event is discarded: encounteredError = true; continue
Discard(hr) == [hr EXCEPT !.rest = Tail(@), !.encounteredError = TRUE]

\* metaFile.Consume, json.Marshal fails: the event is discarded
SerializeFails(h) ==
    /\ Running
    /\ handler[h].pc = "consume"
    /\ handler[h].rest # <<>>
    /\ ~events[Head(handler[h].rest)].ok
    /\ handler' = [handler EXCEPT ![h] = Discard(@)]
    /\ dropped' = dropped \cup {Head(handler[h].rest)}
    /\ UNCHANGED <<metaFiles, mutex, metaFile, file, now, events, enqueued,
                   closeCalls, queueCloses, timerFires,
                   faultsLeft, panic, groups, stdoutVars,
                   gatewayVars>>

\* metaFile.Consume, case metaFile.eventData <- serializedBytes: the queue has
\* room (a send on a closed channel panics)
EnqueueSend(h) ==
    LET w == handler[h].metaFile
        e == Head(handler[h].rest)
    IN /\ Running
       /\ handler[h].pc = "consume"
       /\ handler[h].rest # <<>>
       /\ events[e].ok
       /\ w # 0
       /\ IF metaFile[w].closed
          THEN /\ panic' = "send on closed channel"
               /\ UNCHANGED <<metaFile, enqueued, handler>>
          ELSE /\ Len(metaFile[w].eventData) < QueueCapacity
               /\ metaFile' = [metaFile EXCEPT ![w].eventData = Append(@, e)]
               /\ enqueued' = [enqueued EXCEPT ![w] = Append(@, e)]
               /\ handler' = [handler EXCEPT ![h].rest = Tail(@)]
               /\ UNCHANGED panic
       /\ UNCHANGED <<metaFiles, mutex, file, now, events, dropped, closeCalls,
                      queueCloses, timerFires, faultsLeft, groups, stdoutVars,
                   gatewayVars>>

\* a send without a default case
EnqueueBlocks(h) == FALSE

\* metaFile.Consume, default: the send cannot proceed (the queue is full, or
\* the channel of the handle is nil): the event is discarded
EnqueueDefault(h) ==
    LET w == handler[h].metaFile
        e == Head(handler[h].rest)
    IN /\ Running
       /\ handler[h].pc = "consume"
       /\ handler[h].rest # <<>>
       /\ events[e].ok
       /\ \/ w = 0
          \/ w # 0 /\ ~metaFile[w].closed /\ Len(metaFile[w].eventData) >= QueueCapacity
       /\ handler' = [handler EXCEPT ![h] = Discard(@)]
       /\ dropped' = dropped \cup {e}
       /\ UNCHANGED <<metaFiles, mutex, metaFile, file, now, events, enqueued,
                      closeCalls, queueCloses, timerFires,
                      faultsLeft, panic, groups, stdoutVars,
                   gatewayVars>>

\* metaFile.Consume after the loop: an error if encounteredError
Return(h) ==
    /\ Running
    /\ handler[h].pc = "consume"
    /\ handler[h].rest = <<>>
    /\ handler' = [handler EXCEPT ![h].err = handler[h].encounteredError,
                                  ![h].pc = "returned"]
    /\ UNCHANGED <<metaFiles, mutex, metaFile, file, now, events, enqueued,
                   dropped, closeCalls, queueCloses, timerFires,
                   faultsLeft, panic, groups, stdoutVars,
                   gatewayVars>>

\* the caller has the result of Consume; the request goroutine ends
Respond(h) ==
    /\ Running
    /\ handler[h].pc = "returned"
    /\ handler' = [handler EXCEPT ![h] = IdleHandler]
    /\ UNCHANGED <<metaFiles, mutex, metaFile, file, now, events, enqueued,
                   dropped, closeCalls, queueCloses, timerFires,
                   faultsLeft, panic, groups, stdoutVars,
                   gatewayVars>>

(***************************************************************************)
(* filesystem.go: Close                                                    *)
(***************************************************************************)

\* the writers in the map
Stored == {metaFiles[g] : g \in Groups} \ {0}

\* FilesystemOutput.Close: close(eventData) of every writer in the map. The
\* receiver is a copy, so the assignment of an empty map to its metaFiles
\* is lost and the map keeps its entries. Closing a closed channel panics.
\* It is called when no Consume is running, and no Consume follows it.
Close ==
    /\ Running
    /\ closeCalls < MaxCloseCalls
    /\ \A h \in Handlers : handler[h].pc = "idle"
    /\ closeCalls' = closeCalls + 1
    /\ queueCloses' = [w \in Writers |->
                         queueCloses[w] + (IF w \in Stored THEN 1 ELSE 0)]
    /\ metaFile' = [w \in Writers |->
                      IF w \in Stored THEN [metaFile[w] EXCEPT !.closed = TRUE]
                                      ELSE metaFile[w]]
    /\ panic' = IF \E w \in Stored : metaFile[w].closed
                THEN "close of closed channel"
                ELSE panic
    /\ UNCHANGED <<metaFiles, mutex, file, now, handler, events, enqueued,
                   dropped, timerFires, faultsLeft, groups, stdoutVars,
                   gatewayVars>>

(***************************************************************************)
(* stdout.go                                                               *)
(***************************************************************************)

\* StdoutOutput.Consume is called with a batch of events
StdoutStart(h) ==
    /\ Running
    /\ handler[h].pc = "idle"
    /\ closeCalls = 0
    /\ \E g \in groups, n \in 1..MaxBatch, bad \in 0..MaxBatch :
          /\ Len(events) + n <= MaxEvents
          /\ bad <= n
          /\ bad # 0 => CanFail
          /\ events' = events \o [i \in 1..n |-> [group |-> g, ok |-> i # bad]]
          /\ faultsLeft' = faultsLeft - (IF bad # 0 THEN 1 ELSE 0)
          /\ handler' = [handler EXCEPT ![h] =
                           [IdleHandler EXCEPT !.pc = "stdout",
                                               !.group = g,
                                               !.batch = NewIds(n),
                                               !.rest = NewIds(n)]]
    /\ UNCHANGED <<metaFiles, mutex, metaFile, file, now, enqueued, dropped,
                   closeCalls, queueCloses, timerFires, panic, groups, stdoutVars,
                   gatewayVars>>

\* StdoutOutput.Consume, json.Marshal fails: the event is discarded
StdoutSerializeFails(h) ==
    /\ Running
    /\ handler[h].pc = "stdout"
    /\ handler[h].rest # <<>>
    /\ ~events[Head(handler[h].rest)].ok
    /\ handler' = [handler EXCEPT ![h] = Discard(@)]
    /\ dropped' = dropped \cup {Head(handler[h].rest)}
    /\ UNCHANGED <<metaFiles, mutex, metaFile, file, now, events, enqueued,
                   closeCalls, queueCloses, timerFires, faultsLeft, panic,
                   groups, stdoutVars,
                   gatewayVars>>

\* StdoutOutput.Consume, case stdoutOutput.eventStrings <- string(serializedBytes)
StdoutSend(h) ==
    /\ Running
    /\ handler[h].pc = "stdout"
    /\ handler[h].rest # <<>>
    /\ events[Head(handler[h].rest)].ok
    /\ Len(eventStrings) < QueueCapacity
    /\ eventStrings' = Append(eventStrings, Head(handler[h].rest))
    /\ handler' = [handler EXCEPT ![h].rest = Tail(@)]
    /\ UNCHANGED <<metaFiles, mutex, metaFile, file, now, events, enqueued,
                   dropped, closeCalls, queueCloses, timerFires, faultsLeft,
                   panic, groups, stdoutLines,
                   gatewayVars>>

\* StdoutOutput.Consume, default: the queue is full, the event is discarded
StdoutDefault(h) ==
    /\ Running
    /\ handler[h].pc = "stdout"
    /\ handler[h].rest # <<>>
    /\ events[Head(handler[h].rest)].ok
    /\ Len(eventStrings) >= QueueCapacity
    /\ handler' = [handler EXCEPT ![h] = Discard(@)]
    /\ dropped' = dropped \cup {Head(handler[h].rest)}
    /\ UNCHANGED <<metaFiles, mutex, metaFile, file, now, events, enqueued,
                   closeCalls, queueCloses, timerFires, faultsLeft, panic,
                   groups, stdoutVars,
                   gatewayVars>>

\* StdoutOutput.Consume after the loop: an error if encounteredError
StdoutReturn(h) ==
    /\ Running
    /\ handler[h].pc = "stdout"
    /\ handler[h].rest = <<>>
    /\ handler' = [handler EXCEPT ![h].err = handler[h].encounteredError,
                                  ![h].pc = "returned"]
    /\ UNCHANGED <<metaFiles, mutex, metaFile, file, now, events, enqueued,
                   dropped, closeCalls, queueCloses, timerFires, faultsLeft,
                   panic, groups, stdoutVars,
                   gatewayVars>>

\* process of stdout.go: for eventString := range eventStrings, fmt.Println
StdoutProcess ==
    /\ Running
    /\ eventStrings # <<>>
    /\ eventStrings' = Tail(eventStrings)
    /\ stdoutLines' = Append(stdoutLines, Head(eventStrings))
    /\ UNCHANGED <<metaFiles, mutex, metaFile, file, now, handler, events,
                   enqueued, dropped, closeCalls, queueCloses, timerFires,
                   faultsLeft, panic, groups,
                   gatewayVars>>

(***************************************************************************)
(* The specification                                                       *)
(***************************************************************************)
\* the steps of a request in FilesystemOutput.Consume, failures apart
ConsumeStep(h) ==
    \/ StartConsume(h)
    \/ Lookup(h)
    \/ Lock(h)
    \/ Create(h)
    \/ Store(h)
    \/ EnqueueSend(h)
    \/ EnqueueDefault(h)
    \/ Return(h)
    \/ Respond(h)

\* the steps of metaProcess of writer w, the expiry of its timer apart
MetaStep(w) ==
    \/ MetaReceive(w)
    \/ MetaWrite(w)
    \/ MetaSendDone(w)
    \/ MetaSendContent(w)
    \/ MetaRotate(w)
    \/ MetaShutdown(w)

\* the steps of process of file f
ProcessStep(f) ==
    \/ ProcessWrite(f)
    \/ ProcessCloseFile(f)

\* The filesystem output with failing system calls and serializations
Next ==
    \/ \E h \in Handlers : ConsumeStep(h) \/ SerializeFails(h)
    \/ \E w \in Writers : MetaStep(w) \/ MetaTimer(w)
    \/ \E f \in Files : ProcessStep(f)
    \/ Close

Spec == Init /\ [][Next]_vars

\* No system call and no serialization fails
InitNoFault == InitState(0, {"g1"}) /\ GatewayIdle

NextNoFault ==
    \/ \E h \in Handlers : ConsumeStep(h)
    \/ \E w \in Writers : MetaStep(w) \/ MetaTimer(w)
    \/ \E f \in Files : ProcessStep(f)
    \/ Close

SpecNoFault == InitNoFault /\ [][NextNoFault]_vars

\* Both outputs, with failing system calls and serializations
NextOutputs ==
    \/ Next
    \/ \E h \in Handlers :
          \/ StdoutStart(h)
          \/ StdoutSerializeFails(h)
          \/ StdoutSend(h)
          \/ StdoutDefault(h)
          \/ StdoutReturn(h)
    \/ StdoutProcess

SpecOutputs == Init /\ [][NextOutputs]_vars

\* Close is called once, as its contract asks
CloseOnce == closeCalls = 0 /\ Close

NextFair ==
    \/ \E h \in Handlers : ConsumeStep(h)
    \/ \E w \in Writers : MetaStep(w) \/ MetaTimer(w)
    \/ \E f \in Files : ProcessStep(f)
    \/ CloseOnce

\* Every goroutine that can take a step eventually takes one; the timer and
\* the requests are under no obligation
FairSpec ==
    /\ InitNoFault
    /\ [][NextFair]_vars
    /\ \A w \in Writers : WF_vars(MetaStep(w))
    /\ \A f \in Files : WF_vars(ProcessStep(f))

(***************************************************************************)
(* What a reader of the directories sees                                   *)
(***************************************************************************)
\* the files in the directory of writer w
DirectoryFiles(w) == {f \in Files : file[f].onDisk /\ file[f].owner = w}

\* the files of S in the order of their names (their creation times)
RECURSIVE InNameOrder(_)
InNameOrder(S) ==
    IF S = {}
    THEN <<>>
    ELSE LET first == CHOOSE f \in S : \A f2 \in S : file[f].name <= file[f2].name
         IN <<first>> \o InNameOrder(S \ {first})

\* the events on disk in the directory of writer w, file after file
RECURSIVE EventsOfFiles(_)
EventsOfFiles(fs) ==
    IF fs = <<>>
    THEN <<>>
    ELSE EventsIn(file[Head(fs)].bytes) \o EventsOfFiles(Tail(fs))

DirectoryEvents(w) == EventsOfFiles(InNameOrder(DirectoryFiles(w)))

Range(seq) == {seq[i] : i \in 1..Len(seq)}

\* the position of e in seq (0: not in it)
Pos(seq, e) == IF e \in Range(seq) THEN CHOOSE i \in 1..Len(seq) : seq[i] = e ELSE 0

(***************************************************************************)
(* C1: every file whose name does not start with "." is a complete, valid  *)
(* JSON array, also when writes to the file fail.                          *)
(***************************************************************************)
C1_VisibleFilesAreJSONArrays ==
    \A f \in Files : file[f].visible => IsJSONArray(file[f].bytes)

(***************************************************************************)
(* C8: a second Close has no effect and fails nowhere: no channel is       *)
(* closed twice.                                                           *)
(***************************************************************************)
C8_CloseIdempotent ==
    /\ panic # "close of closed channel"
    /\ \A w \in Writers : queueCloses[w] <= 1

(***************************************************************************)
(* C9: for every file, closeFile (closing bracket, close, rename) runs at  *)
(* most once and the content channel is closed at most once, however many  *)
(* of size threshold, timer, write error and shutdown ask for it.          *)
(***************************************************************************)
C9_FinalizedAndClosedOnce ==
    \A f \in Files : file[f].finalizes <= 1 /\ file[f].contentCloses <= 1

\* a published file that file.Close was called on more than once
C9_Witness ==
    \E f \in Files :
        /\ file[f].closeRequests >= 2
        /\ file[f].contentCloses = 1
        /\ file[f].finalizes = 1
        /\ file[f].visible

(***************************************************************************)
(* C10: once the bytes process has written to a file have reached the      *)
(* size threshold, no step appends a further event to that file.           *)
(***************************************************************************)
C10_NoEventAfterThreshold ==
    [][\A f \in Files :
          file[f].totalBytesWritten >= MaxFileSize
             => EventsIn(file'[f].bytes) = EventsIn(file[f].bytes)]_vars

(***************************************************************************)
(* C3: at no time do two writers exist for one group; the map entry of a   *)
(* group and every enqueue of an event of the group go to that one writer, *)
(* and every request that has its handle holds the handle of that writer:  *)
(* no request is left with another handle, and none ends in a fatal error  *)
(* of the map.                                                             *)
(***************************************************************************)
C3_OneWriterPerGroup ==
    /\ \A g \in Groups : Cardinality({w \in Writers : metaFile[w].group = g}) <= 1
    /\ \A g \in Groups : metaFiles[g] # 0 => metaFile[metaFiles[g]].group = g
    /\ \A w \in Writers : \A e \in Range(enqueued[w]) :
          events[e].group = metaFile[w].group
    /\ \A h \in Handlers :
          handler[h].pc \in {"store", "consume"}
             => /\ handler[h].metaFile # 0
                /\ metaFile[handler[h].metaFile].group = handler[h].group
    /\ panic # "concurrent map read and map write"

(***************************************************************************)
(* C4: when Consume of the filesystem output returns, every event of the   *)
(* batch was attempted: it is either enqueued or dropped, never both, the  *)
(* enqueued ones in batch order; an event that does not serialize is never *)
(* enqueued; and the call returns an error iff one of its events was       *)
(* dropped.                                                                *)
(***************************************************************************)
AllEnqueued == UNION {Range(enqueued[w]) : w \in Writers}

C4_DropAndReport ==
    /\ dropped \cap AllEnqueued = {}
    /\ \A e \in 1..Len(events) : ~events[e].ok => e \notin AllEnqueued
    /\ \A h \in Handlers :
          handler[h].pc = "returned" =>
             LET b == handler[h].batch
             IN /\ handler[h].err <=> (\E i \in 1..Len(b) : b[i] \in dropped)
                /\ \A i \in 1..Len(b) : b[i] \in dropped \/ b[i] \in AllEnqueued
                /\ \A w \in Writers : \A i, j \in 1..Len(b) :
                      (i < j /\ b[i] \in Range(enqueued[w]) /\ b[j] \in Range(enqueued[w]))
                         => Pos(enqueued[w], b[i]) < Pos(enqueued[w], b[j])

\* a call returned an error: its first event was dropped, its second enqueued
C4_Witness ==
    \E h \in Handlers :
        /\ handler[h].pc = "returned"
        /\ handler[h].err
        /\ Len(handler[h].batch) = 2
        /\ handler[h].batch[1] \in dropped
        /\ handler[h].batch[2] \in AllEnqueued

(***************************************************************************)
(* C2: after Close, once every writer and every file goroutine has         *)
(* finished, the files of a group's directory hold exactly the events that *)
(* were enqueued for the group, each once: N events handed to Consume      *)
(* minus those dropped at the enqueue (no system call and no serialization *)
(* fails).                                                                 *)
(***************************************************************************)
\* Close was called and every goroutine of the output has finished
Quiescent ==
    /\ closeCalls > 0
    /\ \A h \in Handlers : handler[h].pc = "idle"
    /\ \A w \in Writers : metaFile[w].pc \in {"none", "exited"}
    /\ \A f \in Files : file[f].pc \in {"none", "exited"}

\* the events handed to Consume for group g, and those of them dropped
HandedOver(g) == {e \in 1..Len(events) : events[e].group = g}

C6_EnqueueOrderOnDisk ==
    \A w \in Writers :
       LET onDisk == DirectoryEvents(w)
       IN /\ Range(onDisk) \subseteq Range(enqueued[w])
          /\ \A i, j \in 1..Len(onDisk) :
                i < j => Pos(enqueued[w], onDisk[i]) < Pos(enqueued[w], onDisk[j])

\* events in two files, one of them with two events, enqueued
\* in another order than the order of the calls
C6_Witness ==
    \E f1, f2 \in Files :
        /\ f1 # f2
        /\ file[f1].owner = file[f2].owner
        /\ Len(EventsIn(file[f1].bytes)) >= 2
        /\ EventsIn(file[f2].bytes) # <<>>
        /\ \E i \in 1..Len(enqueued[file[f1].owner]) - 1 :
              enqueued[file[f1].owner][i] > enqueued[file[f1].owner][i + 1]

(***************************************************************************)
(* C5: Consume of either output never waits for the goroutine that drains  *)
(* the queue: while events of the batch remain, the next event can be      *)
(* dealt with at once (sent, or discarded), whatever the state of the      *)
(* queue and of the writer; and when none remains, Consume can return.     *)
(***************************************************************************)
C5_ConsumeNeverWaits ==
    \A h \in Handlers :
       /\ (handler[h].pc = "consume" /\ handler[h].rest # <<>>)
             => ENABLED (SerializeFails(h) \/ EnqueueSend(h) \/ EnqueueDefault(h))
       /\ (handler[h].pc = "consume" /\ handler[h].rest = <<>>) => ENABLED Return(h)
       /\ (handler[h].pc = "stdout" /\ handler[h].rest # <<>>)
             => ENABLED (StdoutSerializeFails(h) \/ StdoutSend(h) \/ StdoutDefault(h))
       /\ (handler[h].pc = "stdout" /\ handler[h].rest = <<>>) => ENABLED StdoutReturn(h)

\* a request has an event to enqueue while the queue is full, the writer not
\* having received anything yet
C5_Witness ==
    \E h \in Handlers :
        /\ handler[h].pc = "consume"
        /\ handler[h].rest # <<>>
        /\ handler[h].metaFile # 0
        /\ Len(metaFile[handler[h].metaFile].eventData) = QueueCapacity
        /\ metaFile[handler[h].metaFile].pc = "select"
        /\ metaFile[handler[h].metaFile].eventContent = 0

(***************************************************************************)
(* C7: after Close, if every goroutine that can take a step eventually     *)
(* takes one, every writer receives what its queue holds, writes it,       *)
(* finalizes its current file and terminates: in the end no file with a    *)
(* dot-prefixed name remains, no goroutine of a writer or of a file is     *)
(* left, and the enqueued events are on disk.                              *)
(***************************************************************************)
C7_Drained ==
    /\ \A w \in Writers :
          metaFile[w].pc # "none" =>
             /\ metaFile[w].pc = "exited"
             /\ metaFile[w].eventData = <<>>
             /\ Range(DirectoryEvents(w)) = Range(enqueued[w])
    /\ \A f \in Files :
          file[f].onDisk => file[f].visible /\ file[f].pc = "exited"

MaxTime == 3
\* the longest configured token duration, in seconds
MaxDuration == 2
\* the longest list of past secrets
MaxPastSecrets == 2

Secrets == {"s1", "s2", "s3"}
Sensors == {"n1", "n2"}

\* the algorithms a header can name: those jwt-go has registered, and one it
\* has not
RegisteredAlgs == {"HS256", "HS384", "RS256", "none"}
HMACAlgs == {"HS256", "HS384"}
Algs == RegisteredAlgs \cup {"XX"}

\* signatures: an HMAC made with a secret, or the empty third segment
Signatures ==
    [alg : HMACAlgs, secret : Secrets] \cup {[alg |-> "none", secret |-> ""]}

\* the token strings a client can present: two segments (the signing string
\* alone), three segments, or something that does not decode
TokenStrings ==
    {t \in [form : {"two", "three"}, alg : Algs, group : Groups, sensor : Sensors,
            iat : 0..MaxTime, nbf : 0..MaxTime, exp : 0..MaxTime, sig : Signatures] :
        t.iat = t.nbf}
    \cup {[NoToken EXCEPT !.form = "garbage"]}

\* NewProcessor
NewProcessor(currentSecret, pastSecrets, duration) ==
    [currentSecret |-> currentSecret, pastSecrets |-> pastSecrets,
     duration |-> duration]

\* NewToken: an HS256 token for group and sensor, issued and valid from issuedAt,
\* expiring duration seconds later, signed with the current secret
NewToken(processor, group, sensor, issuedAt) ==
    [form |-> "three", alg |-> "HS256", group |-> group, sensor |-> sensor,
     iat |-> issuedAt, nbf |-> issuedAt, exp |-> issuedAt + processor.duration,
     sig |-> [alg |-> "HS256", secret |-> processor.currentSecret]]

\* jwt.StandardClaims.Valid at time t: a time of 0 is an absent claim
ClaimsValid(token, t) ==
    /\ token.exp = 0 \/ t <= token.exp
    /\ token.iat = 0 \/ t >= token.iat
    /\ token.nbf = 0 \/ t >= token.nbf

\* the key function handed to jwt.ParseWithClaims: "panic" when the method is
\* no *jwt.SigningMethodHMAC (method is nil and method.Name is evaluated for
\* the error message), "error" for an HMAC method that is not HS256
KeyFunc(token) ==
    IF token.alg \notin HMACAlgs THEN "panic"
    ELSE IF token.alg # "HS256" THEN "error"
    ELSE "secret"

\* every signature passes
SignatureUnchecked(token, secret) == TRUE

\* HMAC verification of the third segment with a secret
SignatureVerifies(token, secret) ==
    token.sig = [alg |-> token.alg, secret |-> secret]

\* tryTokenVerification: jwt.ParseWithClaims splits the string (three segments
\* or an error), decodes header and claims, looks the method up (an error if
\* it is not registered), calls the key function, validates the claims and
\* verifies the signature
TryTokenVerification(token, secret, t) ==
    LET claims == [group |-> token.group, sensor |-> token.sensor]
    IN IF token.form # "three"
       THEN [panic |-> FALSE, isValid |-> FALSE, claims |-> ZeroClaims]
       ELSE IF token.alg \notin RegisteredAlgs
       THEN [panic |-> FALSE, isValid |-> FALSE, claims |-> claims]
       ELSE IF KeyFunc(token) = "panic"
       THEN [panic |-> TRUE, isValid |-> FALSE, claims |-> ZeroClaims]
       ELSE IF KeyFunc(token) = "error"
       THEN [panic |-> FALSE, isValid |-> FALSE, claims |-> claims]
       ELSE [panic |-> FALSE,
             isValid |-> ClaimsValid(token, t) /\ SignatureVerifies(token, secret),
             claims |-> claims]

\* the past secrets are not tried
CurrentSecretOnly(token, secrets, t, last) == last

\* the loop of VerifyToken over the past secrets, after the attempt last
RECURSIVE TryPastSecrets(_, _, _, _)
TryPastSecrets(token, secrets, t, last) ==
    IF last.panic \/ last.isValid \/ secrets = <<>>
    THEN last
    ELSE TryPastSecrets(token, Tail(secrets), t,
                        TryTokenVerification(token, Head(secrets), t))

\* VerifyToken: the current secret, then the past secrets in their order
VerifyToken(processor, token, t) ==
    TryPastSecrets(token, processor.pastSecrets, t,
                   TryTokenVerification(token, processor.currentSecret, t))

\* the lists of past secrets a configuration can hold
PastSecretLists ==
    UNION {[1..n -> Secrets] : n \in 0..MaxPastSecrets}

\* the seconds pass
Tick ==
    /\ ~verified.called
    /\ clock < MaxTime
    /\ clock' = clock + 1
    /\ UNCHANGED <<outputVars, exceptTokenVars, tokenProcessor, tokenString, verified, minted>>

\* a client presents a token string of its choice: VerifyToken(tokenString)
CallVerifyToken ==
    /\ ~verified.called
    /\ \E t \in TokenStrings :
          /\ tokenString' = t
          /\ verified' = [called |-> TRUE, now |-> clock]
                            @@ VerifyToken(tokenProcessor, t, clock)
    /\ UNCHANGED <<outputVars, exceptTokenVars, tokenProcessor, clock, minted>>

\* the caller has the result of VerifyToken
ReturnVerifyToken ==
    /\ verified.called
    /\ tokenString' = NoToken
    /\ verified' = NotVerified
    /\ UNCHANGED <<outputVars, exceptTokenVars, tokenProcessor, clock, minted>>

\* A processor with any configuration of secrets, verifying what clients present
InitToken ==
    /\ InitState(0, {"g1"})
    /\ tokenProcessor \in {NewProcessor(c, p, 1) : c \in Secrets, p \in PastSecretLists}
    /\ clock = 1
    /\ tokenString = NoToken
    /\ verified = NotVerified
    /\ minted = NotMinted
    /\ IdleExceptToken

NextToken == Tick \/ CallVerifyToken \/ ReturnVerifyToken

SpecToken == InitToken /\ [][NextToken]_vars

\* the secrets a processor verifies with
ConfiguredSecrets(processor) ==
    {processor.currentSecret}
       \cup {processor.pastSecrets[i] : i \in 1..Len(processor.pastSecrets)}

(***************************************************************************)
(* C11: for a token string of two or of three segments whose header names  *)
(* an algorithm other than HS256, VerifyToken returns, and returns false,  *)
(* whatever the secrets are.                                               *)
(***************************************************************************)
C11_OtherAlgorithmsRejected ==
    (/\ verified.called
     /\ tokenString.form \in {"two", "three"}
     /\ tokenString.alg # "HS256")
        => ~verified.panic /\ ~verified.isValid

(***************************************************************************)
(* C12: VerifyToken returns true only for a token whose HS256 signature    *)
(* was made with the current secret or with one of the past secrets, at a  *)
(* time within the token's notBefore/expiresAt window (a claim that is     *)
(* absent sets no limit); the claims returned with true are the group and  *)
(* the sensor of the token. A token signed with a secret that is not       *)
(* configured, and an expired token, are rejected.                         *)
(***************************************************************************)
C12_TrueOnlyForSignedAndCurrent ==
    LET t == tokenString
        signedWith == IF t.form = "three" /\ t.alg = "HS256" /\ t.sig.alg = "HS256"
                      THEN {t.sig.secret} ELSE {}
        expired == t.exp # 0 /\ verified.now > t.exp
        early == t.nbf # 0 /\ verified.now < t.nbf
    IN verified.called =>
          /\ verified.isValid =>
                /\ signedWith \cap ConfiguredSecrets(tokenProcessor) # {}
                /\ ~expired /\ ~early
                /\ verified.claims = [group |-> t.group, sensor |-> t.sensor]
          /\ signedWith \cap ConfiguredSecrets(tokenProcessor) = {} => ~verified.isValid
          /\ expired => ~verified.isValid

\* a token accepted with the second of two past secrets, after the current
\* secret and the first past secret have failed
C12_Witness ==
    /\ verified.called
    /\ verified.isValid
    /\ Len(tokenProcessor.pastSecrets) = 2
    /\ tokenString.sig.secret = tokenProcessor.pastSecrets[2]
    /\ tokenString.sig.secret # tokenProcessor.pastSecrets[1]
    /\ tokenString.sig.secret # tokenProcessor.currentSecret
    /\ tokenString.exp = verified.now
    /\ verified.claims = [group |-> "g2", sensor |-> "n2"]

(***************************************************************************)
(* token.go: tokens of NewToken, and the rotation of the secrets           *)
(***************************************************************************)
\* seq with x put in at position i
InsertAt(seq, i, x) ==
    SubSeq(seq, 1, i - 1) \o <<x>> \o SubSeq(seq, i, Len(seq))

\* NewToken(group, sensor) at the present time
CallNewToken ==
    /\ ~verified.called
    /\ \E g \in Groups, n \in Sensors :
          minted' = [called |-> TRUE, group |-> g, sensor |-> n,
                     token |-> NewToken(tokenProcessor, g, n, clock)]
    /\ UNCHANGED <<outputVars, exceptTokenVars, tokenProcessor, clock, tokenString, verified>>

\* The gateway is started again with a rotated configuration: another secret
\* is current and the one that was current is somewhere among the past ones
RotateSecrets ==
    /\ ~verified.called
    /\ Len(tokenProcessor.pastSecrets) < MaxPastSecrets
    /\ \E s \in Secrets \ {tokenProcessor.currentSecret},
          i \in 1..Len(tokenProcessor.pastSecrets) + 1 :
          tokenProcessor' =
             NewProcessor(s,
                          InsertAt(tokenProcessor.pastSecrets, i,
                                   tokenProcessor.currentSecret),
                          tokenProcessor.duration)
    /\ UNCHANGED <<outputVars, exceptTokenVars, clock, tokenString, verified, minted>>

\* VerifyToken of the token NewToken gave
VerifyNewToken ==
    /\ ~verified.called
    /\ minted.called
    /\ tokenString' = minted.token
    /\ verified' = [called |-> TRUE, now |-> clock]
                      @@ VerifyToken(tokenProcessor, minted.token, clock)
    /\ UNCHANGED <<outputVars, exceptTokenVars, tokenProcessor, clock, minted>>

\* A processor that issues tokens, before and after rotations of its secrets
InitRotation ==
    /\ InitState(0, {"g1"})
    /\ tokenProcessor \in {NewProcessor(c, <<>>, d) : c \in Secrets, d \in 1..MaxDuration}
    /\ clock = 1
    /\ tokenString = NoToken
    /\ verified = NotVerified
    /\ minted = NotMinted
    /\ IdleExceptToken

NextRotation ==
    \/ Tick
    \/ CallNewToken
    \/ RotateSecrets
    \/ VerifyNewToken
    \/ ReturnVerifyToken

SpecRotation == InitRotation /\ [][NextRotation]_vars

(***************************************************************************)
(* C13: a token of NewToken(group, sensor) that has not expired is         *)
(* accepted by VerifyToken, with that group and sensor as claims, while    *)
(* its signing secret is the current secret and after that secret has      *)
(* become a past secret, at any position, with another secret current.     *)
(***************************************************************************)
C13_NewTokenVerifies ==
    (/\ verified.called
     /\ minted.called
     /\ tokenString = minted.token
     /\ minted.token.sig.secret \in ConfiguredSecrets(tokenProcessor)
     /\ verified.now <= minted.token.exp)
        => /\ verified.isValid
           /\ verified.claims = [group |-> minted.group, sensor |-> minted.sensor]

\* accepted in its last second with the signing secret second among the
\* past secrets
C13_Witness ==
    /\ verified.called
    /\ verified.isValid
    /\ tokenString = minted.token
    /\ verified.now = minted.token.exp
    /\ Len(tokenProcessor.pastSecrets) = 2
    /\ tokenProcessor.pastSecrets[2] = minted.token.sig.secret
    /\ tokenProcessor.pastSecrets[1] # minted.token.sig.secret
    /\ tokenProcessor.currentSecret # minted.token.sig.secret
    /\ verified.claims = [group |-> "g2", sensor |-> "n1"]

(***************************************************************************)
(* sensor_event.go, window_location_event.go, window_event.go: ParseEvent  *)
(*                                                                         *)
(* A raw event is the record of what its JSON text holds: the value of     *)
(* "type" and of "time", of the identity fields, and of the fields of its  *)
(* type. An identity field is absent, a UUID, a string that is no UUID     *)
(* ("malformed"), or such a string under a key in other letter case        *)
(* ("miscased"): the schema, which matches keys exactly, does not see it,  *)
(* and json.Unmarshal, which matches them without regard to case, does.    *)
(***************************************************************************)
AbsentOrBad == {"absent", "invalid"}

\* the characters of a type: "invalid" stands for a type with a digit or of
\* more than 255 characters, "Under_score" has a character between Z and a
TypeCharacters(type) ==
    CASE type = "invalid" -> {"letter", "digit"}
      [] type = "Under_score" -> {"letter", "underscore"}
      [] OTHER -> {"letter"}

\* the pattern ^[a-zA-z]*$ of the schema: the range A-z takes in the six
\* characters between Z and a, the underscore among them
PatternMatches(type) == TypeCharacters(type) \subseteq {"letter", "underscore"}

\* "overflow" is a non-negative integer that does not fit an int64
RawEvents ==
    [json : {"object", "other"},
     type : AbsentOrBad \cup {"WindowLocation", "Window", "Future", "Under_score"},
     time : AbsentOrBad \cup {"t1", "overflow"},
     sensor : {"absent", "malformed", "miscased"} \cup Sensors,
     group : {"absent", "malformed", "miscased"} \cup Groups,
     identityFirst : BOOLEAN,
     fields : {"valid", "invalid"}]

\* no event (nil)
NoEvent == NotParsed.event

\* eventParserMap: the types with a parse function
ParserTypes == {"WindowLocation", "Window"}

\* schemaValidate with sensorEventJSONSchema: an object with a type that
\* matches the pattern, a non-negative integer time, and sensor and group,
\* if it has them, in the format of a UUID
SensorEventSchemaValid(data) ==
    /\ data.json = "object"
    /\ data.type # "absent"
    /\ PatternMatches(data.type)
    /\ data.time \notin AbsentOrBad
    /\ data.sensor # "malformed"
    /\ data.group # "malformed"

\* schemaValidate with the schema of a type: the sensor event schema, the type
\* itself, and for a WindowLocation the fields it requires
TypedSchemaValid(data, type) ==
    /\ SensorEventSchemaValid(data)
    /\ data.type = type
    /\ type = "WindowLocation" => data.fields = "valid"

\* json.Unmarshal stops at the first value that uuid.UnmarshalText rejects
UnmarshalFails(data) == "miscased" \in {data.sensor, data.group}

\* json.Unmarshal, whose error is not looked at: the fields of the struct
\* after it, those after a rejected identity field left at their zero values,
\* and a time that does not fit the int64 left at zero
Unmarshal(data) ==
    IF UnmarshalFails(data) /\ data.identityFirst
    THEN [type |-> "", time |-> "zero", fields |-> "zero"]
    ELSE [type |-> data.type,
          time |-> IF data.time = "overflow" THEN "zero" ELSE data.time,
          fields |-> data.fields]

\* parseSensorEvent
ParseSensorEvent(data, sensor, group) ==
    IF ~SensorEventSchemaValid(data)
    THEN [err |-> TRUE, event |-> NoEvent]
    ELSE [err |-> FALSE,
          event |-> [struct |-> "SensorEvent",
                     type |-> Unmarshal(data).type,
                     time |-> Unmarshal(data).time,
                     sensor |-> sensor, group |-> group, fields |-> ""]]

\* parseWindowLocationEvent, parseWindowEvent
ParseTypedEvent(type, data, sensor, group) ==
    IF ~TypedSchemaValid(data, type)
    THEN [err |-> TRUE, event |-> NoEvent]
    ELSE [err |-> FALSE,
          event |-> [struct |-> type, type |-> type,
                     time |-> Unmarshal(data).time,
                     sensor |-> sensor, group |-> group,
                     fields |-> IF type = "WindowLocation"
                                THEN Unmarshal(data).fields ELSE ""]]

\* ParseEvent
ParseEvent(data, sensor, group) ==
    LET sensorEvent == ParseSensorEvent(data, sensor, group)
    IN IF sensorEvent.err
       THEN [err |-> TRUE, event |-> NoEvent]
       ELSE IF sensorEvent.event.type \notin ParserTypes
       THEN [err |-> FALSE, event |-> [sensorEvent.event EXCEPT !.type = "Unknown"]]
       ELSE ParseTypedEvent(sensorEvent.event.type, data, sensor, group)

\* ParseEvent is called with a raw event and the authenticated sensor and group
CallParseEvent ==
    /\ ~parseCall.called
    /\ \E data \in RawEvents, sensor \in Sensors, group \in Groups :
          parseCall' = [called |-> TRUE, data |-> data,
                        sensor |-> sensor, group |-> group]
                          @@ ParseEvent(data, sensor, group)
    /\ UNCHANGED <<outputVars, exceptEventVars>>

\* the caller has the result
ReturnParseEvent ==
    /\ parseCall.called
    /\ parseCall' = NotParsed
    /\ UNCHANGED <<outputVars, exceptEventVars>>

InitEvents == InitState(0, {"g1"}) /\ IdleExceptEvents /\ EventsIdle

NextEvents == CallParseEvent \/ ReturnParseEvent

SpecEvents == InitEvents /\ [][NextEvents]_vars

(***************************************************************************)
(* C14: the event ParseEvent returns carries the sensor and the group it   *)
(* was called with, in the Unknown branch and in every typed branch; and   *)
(* what ParseEvent returns does not depend on the sensor and group fields  *)
(* of the payload: a payload that differs in them only gives the same      *)
(* result.                                                                 *)
(***************************************************************************)
C14_PayloadIdentityIgnored ==
    parseCall.called =>
       /\ ~parseCall.err =>
             /\ parseCall.event.sensor = parseCall.sensor
             /\ parseCall.event.group = parseCall.group
       /\ \A other \in RawEvents :
             (/\ other.json = parseCall.data.json
              /\ other.type = parseCall.data.type
              /\ other.time = parseCall.data.time
              /\ other.fields = parseCall.data.fields)
                => LET result == ParseEvent(other, parseCall.sensor, parseCall.group)
                   IN /\ result.err = parseCall.err
                      /\ result.event = parseCall.event

(***************************************************************************)
(* auth: install keys and verifiers                                        *)
(*                                                                         *)
(* A byte string is a sequence of bytes. A byte is a record: a plain byte  *)
(* (k = "raw", its value in v), the v-th byte of a UUID (k the UUID), or   *)
(* the v-th byte of a digest of the input in (k = "sha256"), with a salt   *)
(* for the slow hash (k = "pbkdf2"). Two digests are equal exactly when    *)
(* their inputs are: the hashes are free of collisions.                    *)
(***************************************************************************)
SecretLen == 2
SaltLen == 1
DigestLen == 2
MaxChanges == 2

Raw(v) == [k |-> "raw", v |-> v, in |-> <<>>, salt |-> <<>>]

RawBytes == {Raw(0), Raw(1)}

\* the byte strings rand.Read can give for a length
RandomBytes(length) == [1..length -> RawBytes]

\* uuid.UUID.MarshalBinary: the bytes of a UUID, of one length for all
UUIDBytes(u) == <<[k |-> u, v |-> 1, in |-> <<>>, salt |-> <<>>]>>

\* the UUIDs a key or a verifier can name: the groups, and the zero UUID
AuthGroups == Groups \cup {"nil"}

\* calculateChecksum: the SHA-256 digest of the input
Sha256(input) ==
    [i \in 1..DigestLen |-> [k |-> "sha256", v |-> i, in |-> input, salt |-> <<>>]]

RECURSIVE HMACKey(_)
\* HMAC fills a key shorter than its block with zero bytes: keys that differ
\* in zero bytes at their end are one key
HMACKey(secret) ==
    IF secret # <<>> /\ secret[Len(secret)] = Raw(0)
    THEN HMACKey(SubSeq(secret, 1, Len(secret) - 1))
    ELSE secret

\* pbkdf2.Key(secret, salt, 10000, 32, sha256.New)
Pbkdf2(secret, salt) ==
    [i \in 1..DigestLen |-> [k |-> "pbkdf2", v |-> i, in |-> HMACKey(secret), salt |-> salt]]

UUIDEquals(u1, u2) == UUIDBytes(u1) = UUIDBytes(u2)

CalculateHash(key, salt) == Pbkdf2(key.secret, salt)

IsHashValid(key, verifier) == verifier.hash = CalculateHash(key, verifier.salt)

CalculateVerifierChecksum(group, salt, hash) == Sha256(UUIDBytes(group) \o salt \o hash)

CalculateKeyChecksum(group, secret) == Sha256(UUIDBytes(group) \o secret)

\* the key's checksum is taken as it is
KeyChecksumUnchecked(key) == TRUE

IsKeyChecksumValid(key) == CalculateKeyChecksum(key.group, key.secret) = key.checksum

IsVerifierValid(verifier) ==
    CalculateVerifierChecksum(verifier.group, verifier.salt, verifier.hash) = verifier.checksum

\* NewKey, with the secret the random source gave
NewKey(group, secret) ==
    [group |-> group, secret |-> secret, checksum |-> CalculateKeyChecksum(group, secret)]

\* a verifier whose hash is made without the salt it stores
NewVerifierUnsalted(key, salt) ==
    [group |-> key.group, salt |-> salt, hash |-> CalculateHash(key, <<>>),
     checksum |-> CalculateVerifierChecksum(key.group, salt, CalculateHash(key, <<>>))]

\* NewVerifier, with the salt the random source gave
NewVerifier(key, salt) ==
    [group |-> key.group, salt |-> salt, hash |-> CalculateHash(key, salt),
     checksum |-> CalculateVerifierChecksum(key.group, salt, CalculateHash(key, salt))]

\* Verify without the comparison of the slow hash
VerifyWithoutHash(key, verifier) ==
    /\ UUIDEquals(key.group, verifier.group)
    /\ IsKeyChecksumValid(key)
    /\ IsVerifierValid(verifier)

Verify(key, verifier) ==
    /\ UUIDEquals(key.group, verifier.group)
    /\ IsKeyChecksumValid(key)
    /\ IsVerifierValid(verifier)
    /\ IsHashValid(key, verifier)

\* the byte string fields of a key and of a verifier
KeyFields == {"secret", "checksum"}
VerifierFields == {"salt", "hash", "checksum"}

\* the bytes a changed field can get: plain ones, and those of any field and
\* of any digest of the key and the verifier in hand
CandidateBytes(key, verifier) ==
    RawBytes
      \cup Range(key.secret) \cup Range(key.checksum)
      \cup Range(verifier.salt) \cup Range(verifier.hash) \cup Range(verifier.checksum)
      \cup Range(CalculateKeyChecksum(key.group, key.secret))
      \cup Range(CalculateHash(key, verifier.salt))
      \cup Range(CalculateVerifierChecksum(verifier.group, verifier.salt, verifier.hash))

CanChange ==
    /\ ~authCall.called
    /\ authCall.made # "none"
    /\ authCall.changes < MaxChanges

Changed(key, verifier, what) ==
    [authCall EXCEPT !.key = key, !.verifier = verifier,
                     !.changes = @ + 1, !.changed = what,
                     !.validBefore = Verify(authCall.key, authCall.verifier)]

\* NewKey gives a key for a group
CallNewKey ==
    /\ authCall.made = "none"
    /\ ~authCall.called
    /\ \E group \in Groups, secret \in RandomBytes(SecretLen) :
          authCall' = [authCall EXCEPT !.key = NewKey(group, secret), !.made = "key"]
    /\ UNCHANGED <<outputVars, exceptAuthVars>>

\* NewVerifier gives a verifier for the key
CallNewVerifier ==
    /\ authCall.made = "key"
    /\ ~authCall.called
    /\ \E salt \in RandomBytes(SaltLen) :
          authCall' = [authCall EXCEPT !.verifier = NewVerifier(authCall.key, salt),
                                       !.made = "verifier"]
    /\ UNCHANGED <<outputVars, exceptAuthVars>>

\* one byte of one field of the key or of the verifier becomes another byte
ChangeByte ==
    /\ CanChange
    /\ LET key == authCall.key
           verifier == authCall.verifier
       IN \/ \E f \in KeyFields : \E i \in DOMAIN key[f] :
               \E b \in CandidateBytes(key, verifier) \ {key[f][i]} :
                  authCall' = Changed([key EXCEPT ![f][i] = b], verifier, "key." \o f)
          \/ \E f \in VerifierFields : \E i \in DOMAIN verifier[f] :
               \E b \in CandidateBytes(key, verifier) \ {verifier[f][i]} :
                  authCall' = Changed(key, [verifier EXCEPT ![f][i] = b], "verifier." \o f)
    /\ UNCHANGED <<outputVars, exceptAuthVars>>

\* the group of the key or of the verifier becomes another UUID
ChangeGroup ==
    /\ CanChange
    /\ \/ \E u \in AuthGroups \ {authCall.key.group} :
             authCall' = Changed([authCall.key EXCEPT !.group = u],
                                 authCall.verifier, "key.group")
       \/ \E u \in AuthGroups \ {authCall.verifier.group} :
             authCall' = Changed(authCall.key,
                                 [authCall.verifier EXCEPT !.group = u], "verifier.group")
    /\ UNCHANGED <<outputVars, exceptAuthVars>>

\* a field loses its last byte, or gets one more
Resize ==
    /\ CanChange
    /\ LET key == authCall.key
           verifier == authCall.verifier
           Resized(seq) == {Append(seq, b) : b \in CandidateBytes(key, verifier)}
                             \cup (IF seq = <<>> THEN {}
                                   ELSE {SubSeq(seq, 1, Len(seq) - 1)})
       IN \/ \E f \in KeyFields : \E bytes \in Resized(key[f]) :
               authCall' = Changed([key EXCEPT ![f] = bytes], verifier, "resized")
          \/ \E f \in VerifierFields : \E bytes \in Resized(verifier[f]) :
               authCall' = Changed(key, [verifier EXCEPT ![f] = bytes], "resized")
    /\ UNCHANGED <<outputVars, exceptAuthVars>>

\* whoever changed the fields gives the key or the verifier the checksum of
\* what it holds now
Rechecksum ==
    /\ CanChange
    /\ LET key == authCall.key
           verifier == authCall.verifier
       IN \/ /\ ~IsKeyChecksumValid(key)
             /\ authCall' =
                  Changed([key EXCEPT !.checksum = CalculateKeyChecksum(key.group, key.secret)],
                          verifier, "checksum")
          \/ /\ ~IsVerifierValid(verifier)
             /\ authCall' =
                  Changed(key,
                          [verifier EXCEPT !.checksum =
                              CalculateVerifierChecksum(verifier.group, verifier.salt,
                                                        verifier.hash)],
                          "checksum")
    /\ UNCHANGED <<outputVars, exceptAuthVars>>

\* Verify is called with the key and the verifier in hand
CallVerify ==
    /\ ~authCall.called
    /\ authCall' = [authCall EXCEPT !.called = TRUE,
                                    !.ok = Verify(authCall.key, authCall.verifier)]
    /\ UNCHANGED <<outputVars, exceptAuthVars>>

\* the caller has the result
ReturnVerify ==
    /\ authCall.called
    /\ authCall' = [authCall EXCEPT !.called = FALSE, !.ok = FALSE]
    /\ UNCHANGED <<outputVars, exceptAuthVars>>

InitAuth == InitState(0, {"g1"}) /\ IdleExceptAuth /\ AuthIdle

NextAuth ==
    \/ CallNewKey
    \/ CallNewVerifier
    \/ ChangeByte
    \/ ChangeGroup
    \/ Resize
    \/ Rechecksum
    \/ CallVerify
    \/ ReturnVerify

SpecAuth == InitAuth /\ [][NextAuth]_vars

(***************************************************************************)
(* C16: Verify gives true exactly when the groups of the key and of the    *)
(* verifier are equal, the key's checksum is the digest of its group and   *)
(* secret, the verifier's checksum is the digest of its group, salt and    *)
(* hash, and the slow hash of the key's secret with the verifier's salt is *)
(* the verifier's hash; for every other key and verifier, empty or         *)
(* ill-formed fields included, it gives false.                             *)
(***************************************************************************)
C16_VerifyIffAllFour ==
    authCall.called =>
       (authCall.ok <=>
          /\ authCall.key.group = authCall.verifier.group
          /\ authCall.key.checksum
               = Sha256(UUIDBytes(authCall.key.group) \o authCall.key.secret)
          /\ authCall.verifier.checksum
               = Sha256(UUIDBytes(authCall.verifier.group)
                          \o authCall.verifier.salt \o authCall.verifier.hash)
          /\ authCall.verifier.hash
               = Pbkdf2(authCall.key.secret, authCall.verifier.salt))

\* Verify has refused a key and a verifier of one group, each with the
\* checksum of its fields, for the slow hash alone
C16_Witness ==
    /\ authCall.called
    /\ ~authCall.ok
    /\ authCall.key.group = authCall.verifier.group
    /\ IsKeyChecksumValid(authCall.key)
    /\ IsVerifierValid(authCall.verifier)

ByteFields ==
    {"key.group", "key.secret", "key.checksum",
     "verifier.group", "verifier.salt", "verifier.hash", "verifier.checksum"}

(***************************************************************************)
(* C17: when Verify is true of a key and a verifier and one byte of one of *)
(* their fields is changed, Verify is false of the changed pair.           *)
(***************************************************************************)
C17_SingleByteChangeRejected ==
    (authCall.changed \in ByteFields /\ authCall.validBefore) =>
       /\ ~Verify(authCall.key, authCall.verifier)
       /\ authCall.called => ~authCall.ok

\* Verify has been called after a change of one byte of a pair it accepted
C17_Witness ==
    /\ authCall.changed \in ByteFields
    /\ authCall.validBefore
    /\ authCall.called

(***************************************************************************)
(* C18: the verifier NewVerifier makes of a key NewKey made for a group    *)
(* has that group, and Verify is true of the two.                          *)
(***************************************************************************)
C18_NewVerifierVerifies ==
    (authCall.made = "verifier" /\ authCall.changes = 0) =>
       /\ authCall.verifier.group = authCall.key.group
       /\ authCall.key.group \in Groups
       /\ Verify(authCall.key, authCall.verifier)
       /\ authCall.called => authCall.ok

\* Verify has accepted a new key and its new verifier
C18_Witness ==
    /\ authCall.made = "verifier"
    /\ authCall.changes = 0
    /\ authCall.called
    /\ authCall.ok

(***************************************************************************)
(* api: InstallAPI.Handle and EventsAPI.Handle                             *)
(*                                                                         *)
(* A handler runs from the request to the answer in one step. The event    *)
(* processor of both handlers is a processing.EventProcessor, which prints *)
(* the events it is given: what it got is kept, batch by batch, in the     *)
(* outcome of the request.                                                 *)
(***************************************************************************)
MaxVerifiers == 2
MaxRenewals == 2
MaxElements == 2

\* the tokens a client can present at a time: any token the gateway has
\* issued by then, and tokens it has not: one signed with a secret of the
\* client's own, unsigned ones, and a string that is no token
ApiTokens(processor, t) ==
    {NewToken(processor, g, n, u) : g \in Groups, n \in Sensors, u \in 1..t}
      \cup {[NewToken(processor, "g1", "n1", t) EXCEPT !.sig.secret = "s3"],
            [NewToken(processor, "g1", "n1", t)
                EXCEPT !.alg = "none", !.sig = [alg |-> "none", secret |-> ""]],
            [NewToken(processor, "g1", "n1", t)
                EXCEPT !.alg = "none", !.sig = [alg |-> "none", secret |-> ""],
                       !.form = "two"],
            [NoToken EXCEPT !.form = "garbage"]}

\* the Authorization headers of a request: none, one that is no Bearer
\* header, or a Bearer header with a token
ApiHeaders(processor, t) ==
    {[header |-> "none", token |-> NoToken], [header |-> "other", token |-> NoToken]}
      \cup {[header |-> "bearer", token |-> tk] : tk \in ApiTokens(processor, t)}

\* the secrets of the install keys in use
ApiSecrets == {[i \in 1..SecretLen |-> Raw(0)], [i \in 1..SecretLen |-> Raw(1)]}

\* the verifiers an administrator can configure
ApiVerifiers ==
    {NewVerifier(NewKey(g, secret), [i \in 1..SaltLen |-> Raw(0)]) :
        g \in Groups, secret \in ApiSecrets}

\* the keys an install request can carry: keys made for a group, such keys
\* without their checksum, and the zero key of a request that names none
InstallKeys ==
    {NewKey(g, secret) : g \in Groups, secret \in ApiSecrets}
      \cup {[NewKey(g, secret) EXCEPT !.checksum = <<>>] : g \in Groups, secret \in ApiSecrets}
      \cup {ZeroKey}

\* the group of the key is that of a verifier: the key is not verified
GroupIsConfigured(verifiers, key) ==
    \E i \in DOMAIN verifiers : UUIDEquals(verifiers[i].group, key.group)

\* isInstallRequestValid
IsInstallRequestValid(verifiers, key) ==
    \E i \in DOMAIN verifiers :
       /\ UUIDEquals(verifiers[i].group, key.group)
       /\ Verify(key, verifiers[i])

\* every install gets a new sensor
AlwaysNewSensor(isRenewal, claims, newSensor) == newSensor

\* the sensor of an install: that of the token's claims for a renewal, else
\* the one uuid.NewRandom gave
InstallSensor(isRenewal, claims, newSensor) ==
    IF isRenewal THEN claims.sensor ELSE newSensor

\* an install event that leaves the label out
InstallEventUnlabelled(sensor, group, label) ==
    [struct |-> "InstallEvent", type |-> "Install", time |-> "now",
     sensor |-> sensor, group |-> group, fields |-> ""]

\* events.InstallEvent: fields is its label
InstallEvent(sensor, group, label) ==
    [struct |-> "InstallEvent", type |-> "Install", time |-> "now",
     sensor |-> sensor, group |-> group, fields |-> label]

Answer(status) == [NoOutcome EXCEPT !.status = status]

\* the microseconds of a second
MicrosPerSecond == 1000000

\* InstallAPI.Handle at time t; newSensor is what uuid.NewRandom gives
InstallHandle(verifiers, processor, t, request, newSensor) ==
    LET key == request.key
        tokenProvided == request.header = "bearer"
        verification == VerifyToken(processor, request.token, t)
        renewal == /\ tokenProvided
                   /\ verification.isValid
                   /\ UUIDEquals(key.group, verification.claims.group)
        sensor == InstallSensor(renewal, verification.claims, newSensor)
    IN IF request.body = "unreadable" THEN Answer("500")
       ELSE IF request.body # "json" THEN Answer("400")
       ELSE IF ~IsInstallRequestValid(verifiers, key) THEN Answer("400")
       ELSE IF request.header = "other" THEN Answer("400")
       ELSE IF tokenProvided /\ verification.panic THEN Answer("panic")
       ELSE IF ~renewal /\ request.randomFails
       THEN Answer("500")
       ELSE [status |-> "200", sensor |-> sensor,
             token |-> NewToken(processor, key.group, sensor, t),
             renewal |-> renewal, minted |-> ~renewal,
             consumed |-> << <<InstallEvent(sensor, key.group, request.label)>> >>,
             order |-> <<"Consume", "Write">>,
             expiresAt |-> NewToken(processor, key.group, sensor, t).exp * MicrosPerSecond,
             issuedAt |-> NewToken(processor, key.group, sensor, t).iat * MicrosPerSecond]

\* the installation after a request: a renewal with the latest token goes on
\* with its sensor, every other install begins anew
Installed(installation, request, outcome) ==
    IF outcome.status # "200" THEN installation
    ELSE IF outcome.renewal /\ request.token = installation.token
    THEN [installation EXCEPT !.token = outcome.token, !.renewals = @ + 1]
    ELSE [token |-> outcome.token, sensor |-> outcome.sensor, renewals |-> 0]

\* the labels of install requests: none, or a label
Labels == {"", "Test sensor!"}

\* the bodies of install requests: one that cannot be read to its end, one
\* that is no install request, and install requests with a key
InstallRequests(processor, t) ==
    {[NoRequest EXCEPT !.body = b, !.header = h.header, !.token = h.token] :
        b \in {"unreadable", "invalid"}, h \in ApiHeaders(processor, t)}
      \cup {[NoRequest EXCEPT !.body = "json", !.key = key, !.label = label,
                              !.header = h.header, !.token = h.token,
                              !.randomFails = f] :
              key \in InstallKeys, label \in Labels,
              h \in ApiHeaders(processor, t), f \in BOOLEAN}

\* a request reaches /install
InstallRequestArrives ==
    /\ api.handler = "none"
    /\ api.installation.renewals < MaxRenewals
    /\ \E request \in InstallRequests(tokenProcessor, clock), newSensor \in Sensors :
          LET outcome == InstallHandle(api.verifiers, tokenProcessor, clock,
                                       request, newSensor)
          IN api' = [api EXCEPT !.handler = "install", !.request = request,
                                !.outcome = outcome,
                                !.installation = Installed(@, request, outcome)]
    /\ UNCHANGED <<outputVars, exceptApiVars, clock>>

\* the client has the answer
ApiReturn ==
    /\ api.handler # "none"
    /\ api' = [api EXCEPT !.handler = "none", !.request = NoRequest,
                          !.outcome = NoOutcome]
    /\ UNCHANGED <<outputVars, exceptApiVars, clock>>

\* the seconds pass between requests
ApiTick ==
    /\ api.handler = "none"
    /\ clock < MaxTime
    /\ clock' = clock + 1
    /\ UNCHANGED <<outputVars, exceptApiVars, api>>

\* the lists of verifiers of a configuration
VerifierLists == UNION {[1..n -> ApiVerifiers] : n \in 0..MaxVerifiers}

InitInstallAPI ==
    /\ InitState(0, {"g1"})
    /\ IdleExceptApi
    /\ tokenProcessor = NewProcessor("s1", <<"s2">>, 1)
    /\ clock = 1
    /\ api \in {[NoApiCall EXCEPT !.verifiers = v] : v \in VerifierLists}

NextInstallAPI == InstallRequestArrives \/ ApiReturn \/ ApiTick

SpecInstallAPI == InitInstallAPI /\ [][NextInstallAPI]_vars

\* the key of the install request in hand verifies against a configured
\* verifier of its group
KeyVerifies ==
    /\ api.request.body = "json"
    /\ \E i \in DOMAIN api.verifiers :
          /\ api.verifiers[i].group = api.request.key.group
          /\ Verify(api.request.key, api.verifiers[i])

\* the install request in hand was refused as the client's error, and
\* nothing was done for it
RefusedInstall ==
    /\ api.outcome.status = "400"
    /\ ~api.outcome.minted
    /\ api.outcome.sensor = "nil"
    /\ api.outcome.token = NoToken
    /\ api.outcome.consumed = <<>>

(***************************************************************************)
(* C15 as stated: an install request is accepted only if its key verifies  *)
(* against a configured verifier of the key's group; every other install   *)
(* request is refused with a client error, no sensor is drawn, no token    *)
(* issued and no install event emitted.                                    *)
(***************************************************************************)
C15_AcceptedOnlyIfKeyVerifies ==
    api.handler = "install" =>
       /\ api.outcome.status = "200" => KeyVerifies
       /\ ~KeyVerifies => RefusedInstall

(***************************************************************************)
(* C15 amended: an install request is accepted only if its key verifies    *)
(* against a configured verifier of the key's group; an install request    *)
(* whose body was read and whose key does not verify is refused with a     *)
(* client error, no sensor is drawn, no token issued and no install event  *)
(* emitted; a request whose body cannot be read is answered with a server  *)
(* error, and nothing is done for it either.                               *)
(***************************************************************************)
C15_UnverifiedKeyRefused ==
    api.handler = "install" =>
       /\ api.outcome.status = "200" => KeyVerifies
       /\ (~KeyVerifies /\ api.request.body # "unreadable") => RefusedInstall
       /\ api.request.body = "unreadable" =>
             api.outcome = [NoOutcome EXCEPT !.status = "500"]

\* a key of a configured group that does not verify was refused
C15_Witness ==
    /\ api.handler = "install"
    /\ api.request.body = "json"
    /\ GroupIsConfigured(api.verifiers, api.request.key)
    /\ IsKeyChecksumValid(api.request.key)
    /\ ~KeyVerifies
    /\ api.outcome.status = "400"

\* the install request in hand is a renewal: its key verifies, its token
\* passes VerifyToken and is of the key's group
IsRenewalRequest ==
    /\ api.handler = "install"
    /\ KeyVerifies
    /\ api.request.header = "bearer"
    /\ VerifyToken(tokenProcessor, api.request.token, clock).isValid
    /\ VerifyToken(tokenProcessor, api.request.token, clock).claims.group
         = api.request.key.group

(***************************************************************************)
(* C20: an install request with a valid key and a bearer token that passes *)
(* VerifyToken and has the key's group is answered with the sensor of the  *)
(* token's claims, and the claims of the new token are that sensor and the *)
(* key's group; through successive renewals with the latest token the      *)
(* sensor stays the one of the first install.                              *)
(***************************************************************************)
C20_RenewalKeepsSensor ==
    /\ IsRenewalRequest =>
          LET claims == VerifyToken(tokenProcessor, api.request.token, clock).claims
              renewed == VerifyToken(tokenProcessor, api.outcome.token, clock)
          IN /\ api.outcome.status = "200"
             /\ api.outcome.sensor = claims.sensor
             /\ renewed.isValid
             /\ renewed.claims = [group |-> api.request.key.group,
                                  sensor |-> claims.sensor]
    /\ api.installation.token # NoToken =>
          api.installation.token.sensor = api.installation.sensor

\* the token of an install has been renewed, and the token of that renewal
C20_Witness ==
    /\ IsRenewalRequest
    /\ api.installation.renewals = MaxRenewals
    /\ api.installation.token = api.outcome.token
    /\ api.outcome.sensor = api.installation.sensor

(***************************************************************************)
(* EventsAPI.Handle                                                        *)
(***************************************************************************)
\* the elements of the array of an events request: a Window event that names
\* a sensor and a group of its own, an event of a type the gateway does not
\* know, an event the schema of sensor events refuses, one the schema of its
\* type refuses, and text that is no JSON value
WindowElement ==
    [json |-> "object", type |-> "Window", time |-> "t1", sensor |-> "n2",
     group |-> "g2", identityFirst |-> FALSE, fields |-> "valid"]

ApiElements ==
    {WindowElement,
     [WindowElement EXCEPT !.type = "Future"],
     [WindowElement EXCEPT !.time = "invalid"],
     [WindowElement EXCEPT !.type = "WindowLocation", !.fields = "invalid"],
     [WindowElement EXCEPT !.json = "syntax"]}

RECURSIVE DecodeUntilParseError(_, _, _, _)
\* a loop that is left at the first element ParseEvent refuses
DecodeUntilParseError(elements, sensor, group, parsedEvents) ==
    IF elements = <<>> THEN [err |-> FALSE, parsedEvents |-> parsedEvents]
    ELSE IF Head(elements).json = "syntax" THEN [err |-> TRUE, parsedEvents |-> <<>>]
    ELSE LET parsed == ParseEvent(Head(elements), sensor, group)
         IN IF parsed.err THEN [err |-> FALSE, parsedEvents |-> parsedEvents]
            ELSE DecodeUntilParseError(Tail(elements), sensor, group,
                                       Append(parsedEvents, parsed.event))

RECURSIVE DecodeElements(_, _, _, _)
\* the loop of Handle over the elements: decoder.Decode fails on text that is
\* no JSON value and the loop is left with the error; an element ParseEvent
\* refuses is passed over
DecodeElements(elements, sensor, group, parsedEvents) ==
    IF elements = <<>> THEN [err |-> FALSE, parsedEvents |-> parsedEvents]
    ELSE IF Head(elements).json = "syntax" THEN [err |-> TRUE, parsedEvents |-> <<>>]
    ELSE LET parsed == ParseEvent(Head(elements), sensor, group)
         IN DecodeElements(Tail(elements), sensor, group,
                           IF parsed.err THEN parsedEvents
                           ELSE Append(parsedEvents, parsed.event))

\* EventsAPI.Handle at time t. decoder.More is false at the closing bracket
\* and at the end of the text alike: an array that ends without its bracket
\* is read like one that has it
EventsHandle(processor, t, request) ==
    LET verification == VerifyToken(processor, request.token, t)
        decoded == DecodeElements(request.elements, verification.claims.sensor,
                                  verification.claims.group, <<>>)
    IN IF request.header # "bearer" THEN Answer("400")
       ELSE IF verification.panic THEN Answer("panic")
       ELSE IF ~verification.isValid THEN Answer("401")
       ELSE IF request.body # "array" THEN Answer("400")
       ELSE IF decoded.err THEN Answer("400")
       ELSE [Answer("200") EXCEPT !.consumed = <<decoded.parsedEvents>>,
                                  !.order = <<"Consume">>]

\* the bodies of events requests: text that is no JSON, a JSON value that is
\* no array, and arrays of elements, with their closing bracket or cut
\* before it
EventsRequests(processor, t) ==
    {[NoRequest EXCEPT !.body = b, !.header = h.header, !.token = h.token] :
        b \in {"notjson", "notarray"}, h \in ApiHeaders(processor, t)}
      \cup {[NoRequest EXCEPT !.body = "array", !.elements = elements, !.ending = e,
                              !.header = h.header, !.token = h.token] :
              elements \in UNION {[1..n -> ApiElements] : n \in 0..MaxElements},
              e \in {"closed", "cut"}, h \in ApiHeaders(processor, t)}

\* a request reaches /events
EventsRequestArrives ==
    /\ api.handler = "none"
    /\ \E request \in EventsRequests(tokenProcessor, clock) :
          api' = [api EXCEPT !.handler = "events", !.request = request,
                             !.outcome = EventsHandle(tokenProcessor, clock, request)]
    /\ UNCHANGED <<outputVars, exceptApiVars, clock>>

InitEventsAPI ==
    /\ InitState(0, {"g1"})
    /\ IdleExceptApi
    /\ tokenProcessor = NewProcessor("s1", <<"s2">>, 1)
    /\ clock = 1
    /\ api = NoApiCall

NextEventsAPI == EventsRequestArrives \/ ApiReturn \/ ApiTick

SpecEventsAPI == InitEventsAPI /\ [][NextEventsAPI]_vars

\* the body of the events request in hand is a JSON array of JSON values
BodyIsJSONArray ==
    /\ api.request.body = "array"
    /\ api.request.ending = "closed"
    /\ \A i \in DOMAIN api.request.elements : api.request.elements[i].json # "syntax"

(***************************************************************************)
(* C19: an events request without a Bearer Authorization header, with a    *)
(* token VerifyToken does not accept, with a body that is no JSON array or *)
(* with an array element that is no JSON is answered with an error status, *)
(* and nothing of it is given to Consume.                                  *)
(***************************************************************************)
C19_RejectedWithoutEffect ==
    (/\ api.handler = "events"
     /\ \/ api.request.header # "bearer"
        \/ ~VerifyToken(tokenProcessor, api.request.token, clock).isValid
        \/ ~BodyIsJSONArray)
       => /\ api.outcome.status \in {"400", "401"}
          /\ api.outcome.consumed = <<>>

(***************************************************************************)
(* C21: every install that succeeds, new or renewed, gives exactly one     *)
(* batch of one event to the event processor before it writes its          *)
(* response; the event is an Install event with the sensor of the          *)
(* response, the group of the key and the label of the request.            *)
(***************************************************************************)
C21_OneInstallEventBeforeResponse ==
    (api.handler = "install" /\ api.outcome.status = "200") =>
       /\ api.outcome.order = <<"Consume", "Write">>
       /\ Len(api.outcome.consumed) = 1
       /\ Len(api.outcome.consumed[1]) = 1
       /\ LET event == api.outcome.consumed[1][1]
          IN /\ event.struct = "InstallEvent"
             /\ event.type = "Install"
             /\ event.sensor = api.outcome.sensor
             /\ event.group = api.request.key.group
             /\ event.fields = api.request.label

\* a renewal with a label has succeeded
C21_Witness ==
    /\ api.handler = "install"
    /\ api.outcome.status = "200"
    /\ api.outcome.renewal
    /\ api.request.label # ""
    /\ api.outcome.consumed # <<>>

(***************************************************************************)
(* output: TopOutput and its outputs                                       *)
(*                                                                         *)
(* An output of the list is a StdoutOutput, a FilesystemOutput or the      *)
(* dummyConsumer of the test. Of a FilesystemOutput the TopOutput sees     *)
(* whether the group of the batches has a writer and how often the output  *)
(* was closed: a writer outlives Close (the map of the value receiver      *)
(* keeps it), its channel does not.                                        *)
(***************************************************************************)
MaxTopCalls == 3

NewOutput(kind) == [kind |-> kind, writers |-> FALSE, closes |-> 0]

\* the lists of outputs server.Run and the test give to a TopOutput
ConfiguredOutputs ==
    {<<NewOutput("stdout")>>,
     <<NewOutput("stdout"), NewOutput("filesystem")>>,
     <<NewOutput("dummy"), NewOutput("dummy")>>}

\* the batches a TopOutput is given
TopBatches == UNION {[1..n -> {"e1", "e2"}] : n \in 0..MaxBatch}

\* what Consume of an output can give for a batch: nil, an error, or a panic.
\* StdoutOutput: an error when an event cannot be serialized or the queue is
\* full. FilesystemOutput: events[0] of an empty batch is out of range; the
\* send to the channel of a closed writer panics; else an error when the
\* writer cannot be made, an event cannot be serialized or the queue is full
OutputConsumeOutcomes(output, batch) ==
    CASE output.kind = "dummy" -> {"nil"}
      [] output.kind = "stdout" -> IF batch = <<>> THEN {"nil"} ELSE {"nil", "error"}
      [] output.kind = "filesystem" ->
           IF batch = <<>> THEN {"panic"}
           ELSE IF output.writers /\ output.closes > 0 THEN {"panic"}
           ELSE {"nil", "error"}

\* the output after its Consume
OutputConsumed(output, outcome) ==
    IF output.kind = "filesystem" /\ outcome = "nil"
    THEN [output EXCEPT !.writers = TRUE]
    ELSE output

\* what Close of an output gives: the second close of a writer's channel
\* panics
OutputCloseOutcome(output) ==
    IF output.kind = "filesystem" /\ output.writers /\ output.closes > 0
    THEN "panic" ELSE "returns"

\* the result of TopOutput.Consume after the loop
ConsumeResult(returned) ==
    IF \E i \in DOMAIN returned : returned[i] = "error" THEN "error" ELSE "nil"

RECURSIVE ConsumeOutputs(_, _, _)
\* the loop of TopOutput.Consume from output i on: a panic of an output ends
\* the call
ConsumeOutputs(call, outcomes, i) ==
    IF i > Len(call.outputs) \/ call.result = "panic"
    THEN [call EXCEPT !.result = IF @ = "panic" THEN @ ELSE ConsumeResult(call.returned)]
    ELSE ConsumeOutputs(
            [call EXCEPT !.outputs[i] = OutputConsumed(@, outcomes[i]),
                         !.invoked = Append(@, [output |-> i, batch |-> call.batch]),
                         !.returned = Append(@, outcomes[i]),
                         !.result = IF outcomes[i] = "panic" THEN "panic" ELSE @],
            outcomes, i + 1)

RECURSIVE CloseFirstOnly(_, _)
\* Close of the first output alone
CloseFirstOnly(call, i) ==
    IF i > Len(call.outputs) \/ i > 1
    THEN [call EXCEPT !.result = IF @ = "panic" THEN @ ELSE "returns"]
    ELSE CloseFirstOnly(
            [call EXCEPT !.outputs[i].closes = @ + 1,
                         !.invoked = Append(@, [output |-> i, batch |-> <<>>]),
                         !.returned = Append(@, OutputCloseOutcome(call.outputs[i])),
                         !.result = IF OutputCloseOutcome(call.outputs[i]) = "panic"
                                    THEN "panic" ELSE @],
            i + 1)

RECURSIVE CloseOutputs(_, _)
\* the loop of TopOutput.Close from output i on
CloseOutputs(call, i) ==
    IF i > Len(call.outputs) \/ call.result = "panic"
    THEN [call EXCEPT !.result = IF @ = "panic" THEN @ ELSE "returns"]
    ELSE CloseOutputs(
            [call EXCEPT !.outputs[i].closes = @ + 1,
                         !.invoked = Append(@, [output |-> i, batch |-> <<>>]),
                         !.returned = Append(@, OutputCloseOutcome(call.outputs[i])),
                         !.result = IF OutputCloseOutcome(call.outputs[i]) = "panic"
                                    THEN "panic" ELSE @],
            i + 1)

CanCallTop == server.call = "none" /\ server.calls < MaxTopCalls

\* TopOutput.Consume(batch)
TopConsume ==
    /\ CanCallTop
    /\ \E batch \in TopBatches,
          outcomes \in [1..Len(server.outputs) -> {"nil", "error", "panic"}] :
          /\ \A i \in 1..Len(server.outputs) :
                outcomes[i] \in OutputConsumeOutcomes(server.outputs[i], batch)
          /\ server' = ConsumeOutputs([server EXCEPT !.call = "consume", !.batch = batch,
                                                     !.calls = @ + 1],
                                      outcomes, 1)
    /\ UNCHANGED <<outputVars, exceptServerVars>>

\* TopOutput.Close()
TopClose ==
    /\ CanCallTop
    /\ server' = CloseOutputs([server EXCEPT !.call = "close", !.calls = @ + 1], 1)
    /\ UNCHANGED <<outputVars, exceptServerVars>>

\* the call is over
TopReturn ==
    /\ server.call # "none"
    /\ server' = [server EXCEPT !.call = "none", !.batch = <<>>, !.invoked = <<>>,
                                !.returned = <<>>, !.result = ""]
    /\ UNCHANGED <<outputVars, exceptServerVars>>

InitTop ==
    /\ InitState(0, {"g1"})
    /\ IdleExceptServer
    /\ server \in {[NoServerCall EXCEPT !.outputs = o] : o \in ConfiguredOutputs}

NextTop == TopConsume \/ TopClose \/ TopReturn

SpecTop == InitTop /\ [][NextTop]_vars

\* the call in hand has gone to every output, in the order of the list
EveryOutputInvoked ==
    /\ Len(server.invoked) = Len(server.outputs)
    /\ \A i \in DOMAIN server.invoked :
          server.invoked[i] = [output |-> i, batch |-> server.batch]

(***************************************************************************)
(* C22: Consume of the TopOutput gives the batch it was given to every     *)
(* output of its list, in the order of the list, also after an output has  *)
(* returned an error; it returns an error exactly when at least one output *)
(* has returned an error.                                                  *)
(***************************************************************************)
C22_EveryOutputConsumes ==
    server.call = "consume" =>
       /\ EveryOutputInvoked
       /\ server.result = "error" <=>
             \E i \in DOMAIN server.returned : server.returned[i] = "error"

IsEventsDelivery ==
    /\ api.handler = "events"
    /\ api.request.header = "bearer"
    /\ VerifyToken(tokenProcessor, api.request.token, clock).isValid
    /\ api.request.body = "array"
    /\ \A i \in DOMAIN api.request.elements : api.request.elements[i].json # "syntax"

\* what ParseEvent gives for each element of the request in hand
ParsedElements ==
    LET claims == VerifyToken(tokenProcessor, api.request.token, clock).claims
    IN [i \in DOMAIN api.request.elements |->
          ParseEvent(api.request.elements[i], claims.sensor, claims.group)]

Succeeded(parsed) == ~parsed.err

(***************************************************************************)
(* C24: in an events request an element of the array that ParseEvent       *)
(* refuses is passed over and the other elements are still parsed and      *)
(* delivered: the batch given to Consume is the elements that parsed, in   *)
(* the order of the array, and the request does not fail for the refusal.  *)
(***************************************************************************)
C24_FailedElementsSkipped ==
    IsEventsDelivery =>
       /\ api.outcome.status = "200"
       /\ Len(api.outcome.consumed) = 1
       /\ LET parsed == SelectSeq(ParsedElements, Succeeded)
          IN api.outcome.consumed[1] = [i \in DOMAIN parsed |-> parsed[i].event]

\* an element that ParseEvent refuses came before one that was delivered
C24_Witness ==
    /\ IsEventsDelivery
    /\ Len(api.request.elements) = 2
    /\ ParsedElements[1].err
    /\ ~ParsedElements[2].err
    /\ api.outcome.consumed = << <<ParsedElements[2].event>> >>

(***************************************************************************)
(* C28: every batch given to Consume has at least one event: the events    *)
(* endpoint does not call Consume for an empty array or for an array of    *)
(* which no element parsed.                                                *)
(***************************************************************************)
C28_NoEmptyBatch ==
    \A i \in DOMAIN api.outcome.consumed : api.outcome.consumed[i] # <<>>

\* the payload in hand passes the schema of sensor events and names a type
\* that has no parse function
IsUnregisteredPayload ==
    /\ parseCall.called
    /\ SensorEventSchemaValid(parseCall.data)
    /\ parseCall.data.type \notin ParserTypes

(***************************************************************************)
(* C25: for a payload with a valid envelope whose type is not registered,  *)
(* ParseEvent succeeds and returns the bare envelope with the type         *)
(* Unknown, not the type of the payload; its time is the time of the       *)
(* payload, its sensor and group are the authenticated ones.               *)
(***************************************************************************)
C25_UnregisteredTypeIsUnknown ==
    IsUnregisteredPayload =>
       /\ ~parseCall.err
       /\ parseCall.event.struct = "SensorEvent"
       /\ parseCall.event.type = "Unknown"
       /\ parseCall.event.time = parseCall.data.time
       /\ parseCall.event.sensor = parseCall.sensor
       /\ parseCall.event.group = parseCall.group

\* the payload in hand has no type or no time, a type with a character that
\* is no letter or of more than 255 characters, or a time that is no
\* non-negative integer
HasBadEnvelope ==
    /\ parseCall.called
    /\ parseCall.data.json = "object"
    /\ \/ parseCall.data.type = "absent"
       \/ TypeCharacters(parseCall.data.type) # {"letter"}
       \/ parseCall.data.time \in AbsentOrBad

(***************************************************************************)
(* C26: ParseEvent returns an error for every payload that has no type or  *)
(* no time, whose type is longer than 255 characters or has a character    *)
(* that is no letter, or whose time is not an integer of at least 0,       *)
(* whether the type is registered or not.                                  *)
(***************************************************************************)
C26_BadEnvelopeRefused == HasBadEnvelope => parseCall.err

(***************************************************************************)
(* filesystem.go: Consume with a batch of more than one group              *)
(***************************************************************************)
\* FilesystemOutput.Consume is called with a batch whose events are not all
\* of one group: group := events[0].GetGroup(), and the whole batch goes to
\* metaFile.Consume of the writer of that group
StartConsumeMixed(h) ==
    /\ Running
    /\ handler[h].pc = "idle"
    /\ closeCalls = 0
    /\ \E batch \in [1..MaxBatch -> groups] :
          /\ \E i \in DOMAIN batch : batch[i] # batch[1]
          /\ Len(events) + MaxBatch <= MaxEvents
          /\ events' = events \o [i \in 1..MaxBatch |-> [group |-> batch[i], ok |-> TRUE]]
          /\ handler' = [handler EXCEPT ![h] =
                           [IdleHandler EXCEPT !.pc = "lookup",
                                               !.group = batch[1],
                                               !.batch = NewIds(MaxBatch),
                                               !.rest = NewIds(MaxBatch)]]
    /\ UNCHANGED <<metaFiles, mutex, metaFile, file, now, enqueued, dropped,
                   closeCalls, queueCloses, timerFires, faultsLeft, panic, groups,
                   stdoutVars, gatewayVars>>

\* sensors of both groups, no failing system call
InitMixed == InitState(0, Groups) /\ GatewayIdle

NextMixed ==
    \/ \E h \in Handlers : StartConsumeMixed(h)
    \/ NextNoFault

SpecMixed == InitMixed /\ [][NextMixed]_vars

(***************************************************************************)
(* C27: Consume of the filesystem output enqueues each event to the writer *)
(* of the group of that event, also when the batch holds events of more    *)
(* than one group.                                                         *)
(***************************************************************************)
C27_EventsReachOwnWriter ==
    \A w \in Writers : \A i \in DOMAIN enqueued[w] :
       events[enqueued[w][i]].group = metaFile[w].group

(***************************************************************************)
(* server.go: Run, from the signal to the close of the outputs             *)
(***************************************************************************)
\* the HTTP server hands a request to a handler goroutine, which reads and
\* checks the request before it calls Consume
Accept(h) ==
    /\ Running
    /\ server.run = "serving"
    /\ handler[h].pc = "idle"
    /\ handler' = [handler EXCEPT ![h].pc = "request"]
    /\ UNCHANGED <<metaFiles, mutex, metaFile, file, now, events, enqueued, dropped,
                   closeCalls, queueCloses, timerFires, faultsLeft, panic, groups,
                   stdoutVars, gatewayVars>>

\* the handler calls Consume of the outputs with the batch of its request
HandlerConsume(h) ==
    /\ Running
    /\ handler[h].pc = "request"
    /\ \E g \in groups, n \in 1..MaxBatch :
          /\ Len(events) + n <= MaxEvents
          /\ events' = events \o [i \in 1..n |-> [group |-> g, ok |-> TRUE]]
          /\ handler' = [handler EXCEPT ![h] =
                           [IdleHandler EXCEPT !.pc = "lookup",
                                               !.group = g,
                                               !.batch = NewIds(n),
                                               !.rest = NewIds(n)]]
    /\ UNCHANGED <<metaFiles, mutex, metaFile, file, now, enqueued, dropped,
                   closeCalls, queueCloses, timerFires, faultsLeft, panic, groups,
                   stdoutVars, gatewayVars>>

\* the handler answers a request without calling Consume (400, 401)
HandlerRefuses(h) ==
    /\ Running
    /\ handler[h].pc = "request"
    /\ handler' = [handler EXCEPT ![h] = IdleHandler]
    /\ UNCHANGED <<metaFiles, mutex, metaFile, file, now, events, enqueued, dropped,
                   closeCalls, queueCloses, timerFires, faultsLeft, panic, groups,
                   stdoutVars, gatewayVars>>

\* <-shutdown; server.Shutdown(context) is called: the listeners are closed,
\* no request is accepted from here on
Signal ==
    /\ Running
    /\ server.run = "serving"
    /\ server' = [server EXCEPT !.run = "shutdown"]
    /\ UNCHANGED <<outputVars, exceptServerVars>>

\* Shutdown returns nil: every connection is idle, no handler is running
ShutdownReturns ==
    /\ Running
    /\ server.run = "shutdown"
    /\ \A h \in Handlers : handler[h].pc = "idle"
    /\ server' = [server EXCEPT !.run = "stopped"]
    /\ UNCHANGED <<outputVars, exceptServerVars>>

\* the five seconds of the context are over while a handler is running:
\* Shutdown returns the error of the context, which Run logs and goes on
ShutdownDeadline ==
    /\ Running
    /\ server.run = "shutdown"
    /\ \E h \in Handlers : handler[h].pc # "idle"
    /\ server' = [server EXCEPT !.run = "stopped"]
    /\ UNCHANGED <<outputVars, exceptServerVars>>

\* topLevelEventOutput.Close(): FilesystemOutput.Close, whatever the handlers
\* are doing (StdoutOutput.Close does nothing)
RunClose ==
    /\ Running
    /\ server.run = "stopped"
    /\ server' = [server EXCEPT !.run = "closed"]
    /\ closeCalls' = closeCalls + 1
    /\ queueCloses' = [w \in Writers |->
                         queueCloses[w] + (IF w \in Stored THEN 1 ELSE 0)]
    /\ metaFile' = [w \in Writers |->
                      IF w \in Stored THEN [metaFile[w] EXCEPT !.closed = TRUE]
                                      ELSE metaFile[w]]
    /\ UNCHANGED <<metaFiles, mutex, file, now, handler, events, enqueued,
                   dropped, timerFires, faultsLeft, panic, groups, stdoutVars,
                   exceptServerVars>>

\* the steps of a request, from the handler's start to its end
RequestStep(h) ==
    \/ Accept(h)
    \/ HandlerConsume(h)
    \/ HandlerRefuses(h)
    \/ Lookup(h)
    \/ Lock(h)
    \/ Create(h)
    \/ Store(h)
    \/ EnqueueSend(h)
    \/ EnqueueDefault(h)
    \/ Return(h)
    \/ Respond(h)

NextRun ==
    \/ \E h \in Handlers : RequestStep(h)
    \/ \E w \in Writers : MetaStep(w) \/ MetaTimer(w)
    \/ \E f \in Files : ProcessStep(f)
    \/ Signal
    \/ ShutdownReturns
    \/ ShutdownDeadline
    \/ RunClose

SpecRun == InitNoFault /\ [][NextRun]_vars

\* handler h is inside a call of Consume
InConsume(h) == handler[h].pc \notin {"idle", "request", "returned"}

(***************************************************************************)
(* C29: in the shutdown the outputs are closed once, and only after every  *)
(* handler has completed its calls of Consume: no Consume runs at the      *)
(* time of Close or after it, also when the deadline of Shutdown is over   *)
(* while handlers are running.                                             *)
(***************************************************************************)
C29_CloseAfterEveryConsume ==
    /\ closeCalls <= 1
    /\ closeCalls = 1 => \A h \in Handlers : ~InConsume(h)

\* how often event e is on disk in the directory of writer w
TimesOnDisk(w, e) ==
    Cardinality({i \in DOMAIN DirectoryEvents(w) : DirectoryEvents(w)[i] = e})

\* event e is in the queue of writer w, in the hands of its metaProcess, or
\* in the hands of the process of one of its files
InTransit(w, e) ==
    \/ e \in Range(metaFile[w].eventData)
    \/ metaFile[w].eventContent = e
    \/ \E f \in Files : file[f].owner = w /\ file[f].eventContent = e

\* the file accepts a Write: it has not signalled done and process receives
AcceptsWrite(f) ==
    /\ ~file[f].doneFlag
    /\ file[f].doneChannel = "open"
    /\ file[f].content = "open"
    /\ file[f].pc \in {"recv", "write"}

(***************************************************************************)
(* C30: when Write on the current file returns false, the file having      *)
(* signalled done, and the new file is opened, the writer writes that same *)
(* event to the new file: the event is in the files of the group once (no  *)
(* system call fails).                                                     *)
(***************************************************************************)
C30_RefusedEventGoesToNewFile ==
    \A w \in Writers :
       /\ metaFile[w].attempt = 2 =>
             /\ metaFile[w].pc \in {"write", "send"}
             /\ metaFile[w].eventContent \in Range(enqueued[w])
             /\ TimesOnDisk(w, metaFile[w].eventContent) = 0
             /\ AcceptsWrite(metaFile[w].writingFile)
             /\ EventsIn(file[metaFile[w].writingFile].bytes) = <<>>
       /\ \A e \in Range(enqueued[w]) :
             TimesOnDisk(w, e) = IF InTransit(w, e) THEN 0 ELSE 1

\* without the timer and without Close, the first event of a second file of
\* a writer is one that the file before it refused
C30_Witness ==
    /\ timerFires = 0
    /\ closeCalls = 0
    /\ \E f1, f2 \in Files :
          /\ file[f1].owner = file[f2].owner
          /\ file[f1].name < file[f2].name
          /\ EventsIn(file[f1].bytes) # <<>>
          /\ EventsIn(file[f2].bytes) # <<>>
          /\ EventsIn(file[f2].bytes)[1] \notin Range(EventsIn(file[f1].bytes))
          /\ TimesOnDisk(file[f2].owner, EventsIn(file[f2].bytes)[1]) = 1

(***************************************************************************)
(* metafile.go: the steps of a rotation, as seen from outside              *)
(***************************************************************************)
\* this step is a rotation of writer w that opened a new file
Rotated(w) ==
    /\ metaFile[w].writingFile # 0
    /\ metaFile'[w].writingFile # metaFile[w].writingFile

\* this step is a rotation of writer w after a rejected Write, and opening
\* the new file failed
RotationAfterWriteFailed(w) ==
    /\ metaFile[w].pc = "rotate"
    /\ metaFile'[w].pc # "rotate"
    /\ metaFile'[w].writingFile = metaFile[w].writingFile

\* this step is a rotation on the timer, and opening the new file failed
RotationOnTimerFailed ==
    /\ timerFires' # timerFires
    /\ \A w \in Writers : metaFile'[w].writingFile = metaFile[w].writingFile

\* what holds of every rotation whether the old file was closed before or not
RotationKeepsOrder(w) ==
    LET old == metaFile[w].writingFile
        new == metaFile'[w].writingFile
    IN /\ Rotated(w) =>
             /\ file[new] = NoFile
             /\ file'[new].pc = "recv"
             /\ file'[new].content = "open"
             /\ file'[old].content = "closed"
       /\ RotationAfterWriteFailed(w) =>
             /\ file'[old] = file[old]
             /\ metaFile'[w].pc = "select"
             /\ metaFile'[w].eventContent = 0
             /\ TimesOnDisk(w, metaFile[w].eventContent) = 0
       /\ (RotationOnTimerFailed /\ old # 0) =>
             /\ file'[old] = file[old]
             /\ metaFile'[w].pc # "exited"

\* the statement as the specification has it: at every rotation the content
\* channel of the old file is open and the old file is not finalized when
\* the new file is opened
C31_NewFileBeforeOldClosed ==
    [][\A w \in Writers :
          /\ RotationKeepsOrder(w)
          /\ Rotated(w) =>
                /\ file[metaFile[w].writingFile].content = "open"
                /\ file[metaFile[w].writingFile].finalizes = 0]_vars

(***************************************************************************)
(* C31: rotateFile opens the new file before it calls Close on the old     *)
(* one, and calls it only if the new file was opened. An old file that has *)
(* not signalled done has its content channel open and is not finalized    *)
(* until the new file is open; in a rotation after a rejected Write the    *)
(* content channel of the old file was closed by that Write, before the    *)
(* new file is opened. If opening the new file fails the rotation leaves   *)
(* the old file as it is and the writer keeps it as its current file; the  *)
(* event of a rejected Write is then discarded and the writer goes on to   *)
(* its next event.                                                         *)
(***************************************************************************)
C31_NewFileBeforeCloseOfOld ==
    [][\A w \in Writers :
          /\ RotationKeepsOrder(w)
          /\ Rotated(w) =>
                LET old == metaFile[w].writingFile
                IN /\ file[old].doneChannel = "open" =>
                         file[old].content = "open" /\ file[old].finalizes = 0
                   /\ metaFile[w].pc = "rotate" =>
                         file[old].content = "closed"]_vars

\* a writer that waits for its next event on a file whose content channel
\* is closed: a Write was rejected and the new file could not be opened
C31_Witness ==
    \E w \in Writers :
       /\ metaFile[w].pc = "select"
       /\ ~metaFile[w].closed
       /\ metaFile[w].writingFile # 0
       /\ file[metaFile[w].writingFile].content = "closed"
       /\ faultsLeft < MaxFaults

(***************************************************************************)
(* metafile.go: the age timers                                             *)
(***************************************************************************)
\* a timer that was started fires: its channel holds the tick from here on,
\* whether the select still reads that channel or not
TimerExpires(w) ==
    /\ Running
    /\ metaFile[w].pc \notin {"none", "exited"}
    /\ \E t \in metaFile[w].timers \ metaFile[w].expired :
          metaFile' = [metaFile EXCEPT ![w].expired = @ \cup {t}]
    /\ UNCHANGED <<metaFiles, mutex, file, now, handler, events, enqueued,
                   dropped, closeCalls, queueCloses, timerFires,
                   faultsLeft, panic, groups, stdoutVars, gatewayVars>>

\* case <-fileTimer.C: the tick of the timer the select reads is there
TimerRotation(w) ==
    /\ SelectedTimer(metaFile[w]) \in metaFile[w].expired
    /\ MetaTimer(w)

NextTimers ==
    \/ \E h \in Handlers : ConsumeStep(h)
    \/ \E w \in Writers : MetaStep(w) \/ TimerExpires(w) \/ TimerRotation(w)
    \/ \E f \in Files : ProcessStep(f)
    \/ Close

SpecTimers == InitNoFault /\ [][NextTimers]_vars

\* the newest of the timers of a writer
NewestTimer(mf) == CHOOSE t \in mf.timers : \A t2 \in mf.timers : t >= t2

(***************************************************************************)
(* C32: when the age timer fires the writer rotates the current file also  *)
(* if the file holds no event, and the file is published as a valid empty  *)
(* array. Every rotation, on the size or on the age, starts a new timer,   *)
(* and only the timer started at the most recent rotation can rotate a     *)
(* file: a timer started for an earlier file never rotates a newer one.    *)
(***************************************************************************)
C32_OnlyNewestTimerRotates ==
    [][\A w \in Writers :
          /\ Rotated(w) =>
                /\ metaFile'[w].fileTimer = now
                /\ metaFile'[w].fileTimer \notin metaFile[w].timers
                /\ metaFile'[w].fileTimer >= file'[metaFile'[w].writingFile].name
          /\ (Rotated(w) /\ timerFires' # timerFires) =>
                /\ NewestTimer(metaFile[w]) \in metaFile[w].expired
                /\ NewestTimer(metaFile[w]) >= file[metaFile[w].writingFile].name
          /\ \A f \in Files :
                (file'[f].visible /\ EventsIn(file'[f].bytes) = <<>>) =>
                   /\ file'[f].bytes = <<OpenBracket, CloseBracket>>
                   /\ IsJSONArray(file'[f].bytes)]_vars

\* after a rotation on the size the timer of the first file has fired, the
\* writer waits on the newer file, whose timer has not fired; and a file
\* without events was published by a rotation on the timer
C32_Witness ==
    \E w \in Writers :
       /\ metaFile[w].pc = "select"
       /\ closeCalls = 0
       /\ Cardinality(metaFile[w].timers) >= 3
       /\ \E t \in metaFile[w].expired : t < file[metaFile[w].writingFile].name
       /\ timerFires = 1
       /\ \E f \in Files : /\ file[f].owner = w
                           /\ file[f].visible
                           /\ EventsIn(file[f].bytes) = <<>>

(***************************************************************************)
(* C34: in every state of the pipeline of a writer (events arriving, the   *)
(* size threshold reached, the timer firing, rotations that succeed or     *)
(* fail, failing writes, the queue closed by the shutdown) the writer      *)
(* sends no event on a content channel that is closed, and neither the     *)
(* content channel nor the done channel of a file is closed twice.         *)
(***************************************************************************)
C34_NoSendOnClosedNoDoubleClose ==
    /\ \A w \in Writers :
          metaFile[w].pc = "send" => file[metaFile[w].writingFile].content = "open"
    /\ panic # "send on closed channel"
    /\ \A f \in Files : file[f].contentCloses <= 1 /\ file[f].doneCloses <= 1

\* a file that reached its threshold, was closed by a refused Write and by
\* its rotation, and was finalized, while the writer sends to the next file
C34_Witness ==
    \E w \in Writers, f \in Files :
       /\ metaFile[w].pc = "send"
       /\ f # metaFile[w].writingFile
       /\ file[f].owner = w
       /\ file[f].totalBytesWritten >= MaxFileSize
       /\ file[f].closeRequests >= 2
       /\ file[f].finalizes = 1
       /\ file[f].doneCloses = 1

(***************************************************************************)
(* file.go: Close and Write called by the holder of a handle               *)
(***************************************************************************)
\* Close is called on the handle of the current file of writer w, between
\* two calls of Write
FileCloseCalled(w) ==
    /\ Running
    /\ metaFile[w].pc = "select"
    /\ file[metaFile[w].writingFile].closeRequests = 0
    /\ file' = [file EXCEPT ![metaFile[w].writingFile] = FileClose(@)]
    /\ UNCHANGED <<metaFiles, mutex, metaFile, now, handler, events, enqueued,
                   dropped, closeCalls, queueCloses, timerFires,
                   faultsLeft, panic, groups, stdoutVars, gatewayVars>>

NextFileCalls ==
    \/ \E w \in Writers : FileCloseCalled(w)
    \/ NextNoFault

SpecFileCalls == InitNoFault /\ [][NextFileCalls]_vars

(***************************************************************************)
(* C33: after Close was called on the handle of a file, every later Write  *)
(* on that file returns false and sends nothing on the closed content      *)
(* channel, whether the process of the file has signalled done or not.     *)
(***************************************************************************)
C33_WriteAfterCloseRefused ==
    /\ panic # "send on closed channel"
    /\ \A w \in Writers :
          (metaFile[w].pc \in {"write", "send"}
             /\ file[metaFile[w].writingFile].closeRequests > 0)
          => /\ metaFile[w].pc = "write"
             /\ \/ file[metaFile[w].writingFile].doneFlag
                \/ file[metaFile[w].writingFile].doneChannel = "closed"

(***************************************************************************)
(* C35: the lookup of the writer of a group without the creation lock is   *)
(* safe: no request reads the map of writers without the lock while        *)
(* another request writes the map to insert the writer of another, new     *)
(* group.                                                                  *)
(***************************************************************************)
C35_NoReadDuringInsertOfOtherGroup ==
    /\ panic # "concurrent map read and map write"
    /\ \A h1, h2 \in Handlers :
          ~ /\ handler[h1].pc = "lookup"
            /\ handler[h2].pc = "store"
            /\ handler[h1].group # handler[h2].group

(***************************************************************************)
(* file.go: the clock newFile takes the name of a file from                *)
(***************************************************************************)
\* time.Now().UnixNano()/1000 is the wall clock in microseconds: between
\* two calls of newFile it is set back, or has not advanced by a microsecond
ClockSetBack ==
    /\ Running
    /\ \E t \in 1..(now - 1) : now' = t
    /\ UNCHANGED <<metaFiles, mutex, metaFile, file, handler, events, enqueued,
                   dropped, closeCalls, queueCloses, timerFires,
                   faultsLeft, panic, groups, stdoutVars, gatewayVars>>

NextClock ==
    \/ ClockSetBack
    \/ NextNoFault

SpecClock == InitNoFault /\ [][NextClock]_vars

\* the group whose directory holds file f
DirectoryOf(f) == metaFile[file[f].owner].group

(***************************************************************************)
(* C36: any two files opened for one group, the old and the new file of a  *)
(* rotation among them, have distinct temporary paths and distinct final   *)
(* paths: no two process goroutines append to one file, and the rename of  *)
(* a file never replaces a file published before.                          *)
(***************************************************************************)
C36_DistinctPaths ==
    \A f1, f2 \in Files :
       (f1 # f2 /\ file[f1].onDisk /\ file[f2].onDisk
          /\ DirectoryOf(f1) = DirectoryOf(f2))
       => file[f1].name # file[f2].name

(***************************************************************************)
(* The text of a file                                                      *)
(***************************************************************************)
\* the characters of a write: "[\n", ",\n", "\n]", or a serialized event,
\* which stands as one element
Text(tok) ==
    CASE tok.kind = "[" -> <<"[", "\n">>
      [] tok.kind = "," -> <<",", "\n">>
      [] tok.kind = "]" -> <<"\n", "]">>
      [] tok.kind = "event" -> <<tok.id>>
      [] OTHER -> <<"partial">>

RECURSIVE FileText(_)
FileText(bytes) ==
    IF bytes = <<>> THEN <<>> ELSE Text(Head(bytes)) \o FileText(Tail(bytes))

\* the events evs, a comma and a newline between two of them
RECURSIVE Joined(_)
Joined(evs) ==
    IF evs = <<>> THEN <<>>
    ELSE IF Len(evs) = 1 THEN <<evs[1]>>
    ELSE <<evs[1], ",", "\n">> \o Joined(Tail(evs))

(***************************************************************************)
(* C37: a finalized file that was written without errors is: the opening   *)
(* bracket and a newline, the serialized events in the order of their      *)
(* writes with a comma and a newline between one and the next and nothing  *)
(* before the first, then a newline and the closing bracket; a file        *)
(* finalized without events is the opening and the closing part only.      *)
(***************************************************************************)
C37_FinalizedFileText ==
    \A f \in Files :
       file[f].finalizes = 1 =>
          /\ FileText(file[f].bytes)
               = <<"[", "\n">> \o Joined(EventsIn(file[f].bytes)) \o <<"\n", "]">>
          /\ EventsIn(file[f].bytes) = <<>> =>
                FileText(file[f].bytes) = <<"[", "\n", "\n", "]">>

\* a finalized file with two events and a finalized file without events
C37_Witness ==
    \E f1, f2 \in Files :
       /\ file[f1].finalizes = 1
       /\ Len(EventsIn(file[f1].bytes)) = 2
       /\ file[f2].finalizes = 1
       /\ EventsIn(file[f2].bytes) = <<>>

\* the payload in hand passes the schema of sensor events, names a type
\* with a parse function and violates the schema of that type
ViolatesTypeSchema ==
    /\ parseCall.called
    /\ SensorEventSchemaValid(parseCall.data)
    /\ parseCall.data.type \in ParserTypes
    /\ ~TypedSchemaValid(parseCall.data, parseCall.data.type)

(***************************************************************************)
(* C38: for a payload whose type has a registered parser and which         *)
(* violates the schema of that type (a required field is missing or out of *)
(* range), ParseEvent returns an error and no event: the payload is not    *)
(* turned into an Unknown envelope.                                        *)
(***************************************************************************)
C38_TypeSchemaViolationRefused ==
    ViolatesTypeSchema => parseCall.err /\ parseCall.event = NoEvent

\* the install request in hand has a key that verifies and presents no
\* token that makes it a renewal: no Authorization header, or a Bearer
\* token that VerifyToken refuses (invalid, expired) or that is of another
\* group than the key; and uuid.NewRandom does not fail
IsNewInstallRequest ==
    /\ api.handler = "install"
    /\ KeyVerifies
    /\ ~api.request.randomFails
    /\ \/ api.request.header = "none"
       \/ /\ api.request.header = "bearer"
          /\ LET v == VerifyToken(tokenProcessor, api.request.token, clock)
             IN ~v.isValid \/ v.claims.group # api.request.key.group

(***************************************************************************)
(* C39: an install request with a valid key and no token, or with a token  *)
(* that is invalid, expired or of another group than the key, is not       *)
(* rejected: it goes on as a new install with a sensor drawn anew, not the *)
(* sensor of the token presented; only an Authorization header that is no  *)
(* Bearer header has the request rejected.                                 *)
(***************************************************************************)
C39_BadTokenIsNewInstall ==
    /\ IsNewInstallRequest =>
          /\ api.outcome.status = "200"
          /\ api.outcome.minted
          /\ ~api.outcome.renewal
          /\ api.outcome.token.sensor = api.outcome.sensor
          /\ api.outcome.token.group = api.request.key.group
    /\ (api.handler = "install" /\ KeyVerifies /\ api.request.header = "other")
          => api.outcome.status = "400"

(***************************************************************************)
(* server.go: Run makes the token processor from the configuration         *)
(***************************************************************************)
\* the token durations of a configuration, in microseconds (the schema of
\* the configuration asks for an integer of at least 1)
ConfigDurations == {1, MicrosPerSecond, MicrosPerSecond + 500000, 2 * MicrosPerSecond}

\* token.NewProcessor(current, past, config.Sensor.Token.Duration/1000000)
RunProcessor(config) == NewProcessor("s1", <<>>, config.duration \div MicrosPerSecond)

\* Run with a configuration: one verifier, and a token duration
InitConfig ==
    /\ InitState(0, {"g1"})
    /\ tokenString = NoToken /\ verified = NotVerified /\ minted = NotMinted
    /\ EventsIdle /\ AuthIdle
    /\ server \in {[NoServerCall EXCEPT !.config.duration = d] : d \in ConfigDurations}
    /\ tokenProcessor = RunProcessor(server.config)
    /\ clock = 1
    /\ api \in {[NoApiCall EXCEPT !.verifiers = <<v>>] : v \in ApiVerifiers}

SpecConfig == InitConfig /\ [][NextInstallAPI]_vars

(***************************************************************************)
(* C40: for every token NewToken issues, issuedAt = notBefore = the time   *)
(* of issue, and the lifetime expiresAt - issuedAt is the configured token *)
(* duration, which the configuration gives in microseconds with a minimum  *)
(* of 1; the install response gives issuedAt and expiresAt in microseconds *)
(* and their difference is the configured duration.                        *)
(***************************************************************************)
C40_LifetimeIsConfiguredDuration ==
    (api.handler = "install" /\ api.outcome.status = "200") =>
       /\ api.outcome.token.iat = clock
       /\ api.outcome.token.nbf = clock
       /\ (api.outcome.token.exp - api.outcome.token.iat) * MicrosPerSecond
             = server.config.duration
       /\ api.outcome.issuedAt = clock * MicrosPerSecond
       /\ api.outcome.expiresAt - api.outcome.issuedAt = server.config.duration

=============================================================================
